---- MODULE Spec2Model ----
(***************************************************************************)
(* Parity prediction ensemble of the Deriv even/odd bot: the four models,  *)
(* the Q-learning value table kept in localStorage, the weighting and      *)
(* fusion stage, and the bot's settlement path that feeds the learner.     *)
(*                                                                         *)
(* JavaScript numbers are modelled as exact rationals <<n, d>> (d > 0,     *)
(* lowest terms), so equalities and ties are decided exactly.              *)
(***************************************************************************)
EXTENDS Integers, Sequences, FiniteSets, TLC

VARIABLES
    tickBuffer,     \* the tick history handed to the engine: the ticks' digits, oldest first
    localStorage,   \* the browser store: key -> <<>> (absent) or <<stored string>>
    config,         \* the CONFIG fields the engine reads
    last,           \* the last completed operation: its inputs, result and trace
    nFeedback,      \* number of updateQLearning calls so far
    nFaults,        \* number of storage faults injected so far
    bot             \* the DerivBot fields, its sent requests and the server's contracts

vars == <<tickBuffer, localStorage, config, last, nFeedback, nFaults, bot>>

----------------------------------------------------------------------------
(* Bounds of the model *)

MaxFeedback == 2
MaxTicks == 2
MaxSoldUpdates == 2
MaxPredictions == 2
MaxTrades == 2
MaxFaults == 1
MaxReconnects == 11
MaxOnlineTimers == 1
MaxStops == 1
MaxRetries == 1
MaxOrders == 6

----------------------------------------------------------------------------
(* Exact rational arithmetic standing for JavaScript's number arithmetic *)

Abs(n) == IF n < 0 THEN -n ELSE n

RECURSIVE GCD(_, _)
GCD(a, b) == IF b = 0 THEN a ELSE GCD(b, a % b)

Rat(n, d) ==
    LET s == IF d < 0 THEN -1 ELSE 1
        g == GCD(Abs(n), Abs(d))
    IN  <<(s * n) \div g, (s * d) \div g>>

Zero == <<0, 1>>
One == <<1, 1>>
Half == <<1, 2>>
FromInt(n) == <<n, 1>>

LCM(a, b) == (a \div GCD(a, b)) * b

RAdd(a, b) ==
    LET l == LCM(a[2], b[2])
    IN  Rat(a[1] * (l \div a[2]) + b[1] * (l \div b[2]), l)

RNeg(a) == <<-a[1], a[2]>>
RSub(a, b) == RAdd(a, RNeg(b))

RMul(a, b) ==
    LET g1 == GCD(Abs(a[1]), b[2])
        g2 == GCD(Abs(b[1]), a[2])
    IN  IF a[1] = 0 \/ b[1] = 0 THEN Zero
        ELSE <<(a[1] \div g1) * (b[1] \div g2), (a[2] \div g2) * (b[2] \div g1)>>

\* a / b for b # 0 (every division of the engine is guarded or has a non-zero divisor)
RDiv(a, b) == RMul(a, Rat(b[2], b[1]))

RLess(a, b) == RSub(a, b)[1] < 0
RLeq(a, b) == RSub(a, b)[1] <= 0
RMax(a, b) == IF RLess(a, b) THEN b ELSE a
RMin(a, b) == IF RLess(b, a) THEN b ELSE a

InUnitInterval(x) == RLeq(Zero, x) /\ RLeq(x, One)

\* 0 / 0 in JavaScript
NaN == <<0, 0>>
IsNaN(x) == x[2] = 0

\* a >= b in JavaScript: false when either side is NaN
Geq(a, b) == ~IsNaN(a) /\ ~IsNaN(b) /\ RLeq(b, a)

\* null / undefined results: <<>> for null, <<v>> for a value
None == <<>>
Some(v) == <<v>>
IsNone(o) == Len(o) = 0

----------------------------------------------------------------------------
(* Ticks and the learner's state *)

Digits == 0 .. 9
isEven(digit) == digit % 2 = 0

\* ticks.slice(-n)
SliceLast(s, n) == IF Len(s) <= n THEN s ELSE SubSeq(s, Len(s) - n + 1, Len(s))

CountEven(s) == Cardinality({i \in 1 .. Len(s) : isEven(s[i])})

\* a getState that reads the whole of the ticks it is given
getStateUnsliced(ticks) ==
    [lastDigit |-> ticks[Len(ticks)],
     evenCount |-> CountEven(ticks),
     pattern   |-> [i \in 1 .. Len(ticks) |-> IF isEven(ticks[i]) THEN 1 ELSE 0]]

\* Analysis.getState: {lastDigit, evenCount, pattern} over the last 5 ticks
getState(ticks) ==
    LET recent == SliceLast(ticks, 5)
    IN  [lastDigit |-> recent[Len(recent)],
         evenCount |-> CountEven(recent),
         pattern   |-> [i \in 1 .. Len(recent) |-> IF isEven(recent[i]) THEN 1 ELSE 0]]

\* JSON.stringify(state): the three fields in declaration order, an injective key
stateKey(state) == <<state.lastDigit, state.evenCount, state.pattern>>

Actions == {"EVEN", "ODD"}
Rewards == {1, -1}

----------------------------------------------------------------------------
(* CONFIG *)

Models == {"statistical", "pattern", "ruleBased", "reinforcementLearning"}

learningRate == <<1, 10>>
discountFactor == <<19, 20>>
explorationRate == <<1, 10>>

----------------------------------------------------------------------------
(* Statistical estimator *)

lookbackPeriod == 100
emaAlpha == <<1, 10>>
priorWeight == <<1, 10>>

\* The EMA is a double in the code; the model keeps EmaScale decimal places of it
\* (rounded down at every step), which leaves every comparison of the engine with
\* a margin of more than 1/EmaScale unchanged.
EmaScale == 10 ^ 6

RECURSIVE EmaFrom(_, _, _)
EmaFrom(data, i, ema) ==
    IF i > Len(data) THEN ema
    ELSE EmaFrom(data, i + 1,
                 (emaAlpha[1] * data[i] * EmaScale + (emaAlpha[2] - emaAlpha[1]) * ema)
                     \div emaAlpha[2])

\* an average that is never available
calculateEMANull(data) == None

\* Utils.calculateEMA(data, period, alpha) with alpha given: None on empty data
calculateEMA(data) ==
    IF Len(data) = 0 THEN None
    ELSE Some(Rat(EmaFrom(data, 2, data[1] * EmaScale), EmaScale))

\* Analysis.statisticalModel
statisticalModel(ticks) ==
    IF Len(ticks) < 10
    THEN [model |-> "statistical", prediction |-> "null", confidence |-> Zero]
    ELSE
        LET lookback == IF Len(ticks) < lookbackPeriod THEN Len(ticks) ELSE lookbackPeriod
            recentTicks == SliceLast(ticks, lookback)
            evenCount == CountEven(recentTicks)
            oddCount == lookback - evenCount
            shrink(p) == RAdd(RMul(p, RSub(One, priorWeight)), RMul(Half, priorWeight))
            evenProb0 == shrink(Rat(evenCount, lookback))
            oddProb0 == shrink(Rat(oddCount, lookback))
            last20 == SliceLast(recentTicks, 20)
            recentDigits == [i \in 1 .. Len(last20) |-> IF isEven(last20[i]) THEN 1 ELSE 0]
            ema == calculateEMA(recentDigits)
            evenProb == IF IsNone(ema) THEN evenProb0 ELSE RDiv(RAdd(evenProb0, ema[1]), FromInt(2))
            oddProb == IF IsNone(ema) THEN oddProb0 ELSE RSub(One, evenProb)
        IN  [model |-> "statistical",
             prediction |-> IF RLess(oddProb, evenProb) THEN "EVEN" ELSE "ODD",
             confidence |-> RMax(evenProb, oddProb)]

----------------------------------------------------------------------------
(* Pattern matcher *)

minPatternLength == 3
maxPatternLength == 10
similarityThreshold == <<7, 10>>

\* Analysis.calculatePatternSimilarity: matches / pattern1.length, 0 / 0 for two
\* empty patterns
calculatePatternSimilarity(pattern1, pattern2) ==
    IF Len(pattern1) # Len(pattern2) THEN Zero
    ELSE IF Len(pattern1) = 0 THEN NaN
    ELSE Rat(Cardinality({i \in 1 .. Len(pattern1) : pattern1[i] = pattern2[i]}),
             Len(pattern1))

\* a loop bound that lets the last window end on the last but one tick
LastStartLate(n, L) == n - L - 1

\* the last i of "for (i = 0; i < ticks.length - targetPattern.length - 1; i++)"
LastStart(n, L) == n - L - 2

\* ticks.slice(i, i + L) for a 0-based i: clipped to the array
Slice(ticks, i, L) ==
    SubSeq(ticks, i + 1, IF i + L <= Len(ticks) THEN i + L ELSE Len(ticks))

\* Analysis.findSimilarPatterns: the 0-based window starts i that match
MatchStarts(ticks, targetPattern) ==
    {i \in 0 .. LastStart(Len(ticks), Len(targetPattern)) :
        Geq(calculatePatternSimilarity(targetPattern,
                                       Slice(ticks, i, Len(targetPattern))),
            similarityThreshold)}

\* the digit after the window starting at 0-based index i: ticks[i + L]
Following(ticks, targetPattern, i) == ticks[i + Len(targetPattern) + 1]

\* Analysis.findSimilarPatterns: the matches in the order they are pushed; a
\* read of ticks[i + L] beyond the array is undefined and its .digit throws
RECURSIVE MatchesFrom(_, _, _)
MatchesFrom(ticks, targetPattern, i) ==
    IF i > LastStart(Len(ticks), Len(targetPattern)) THEN <<>>
    ELSE LET similarity == calculatePatternSimilarity(targetPattern,
                               Slice(ticks, i, Len(targetPattern)))
             rest == MatchesFrom(ticks, targetPattern, i + 1)
         IN  IF Geq(similarity, similarityThreshold)
             THEN <<[index |-> i, similarity |-> similarity,
                     following |-> IF i + Len(targetPattern) + 1 \in 1 .. Len(ticks)
                                   THEN Some(Following(ticks, targetPattern, i))
                                   ELSE None]>> \o rest
             ELSE rest

findSimilarPatterns(ticks, targetPattern) == MatchesFrom(ticks, targetPattern, 0)

\* a detector that never flags a streak
detectAnomalyNever(ticks) == FALSE

\* Analysis.detectAnomaly
detectAnomaly(ticks) ==
    IF Len(ticks) < 10 THEN FALSE
    ELSE LET recent == SliceLast(ticks, 10)
         IN  \/ \A i \in 1 .. Len(recent) : isEven(recent[i])
             \/ \A i \in 1 .. Len(recent) : ~isEven(recent[i])

\* Analysis.patternModel
patternModel(ticks) ==
    IF Len(ticks) < 20
    THEN [model |-> "pattern", prediction |-> "null", confidence |-> Zero]
    ELSE
        LET recentPattern == SliceLast(ticks, maxPatternLength)
            currentSequence == SliceLast(recentPattern, minPatternLength)
            matches == MatchStarts(ticks, currentSequence)
            n == Cardinality(matches)
            evenFollowing ==
                Cardinality({i \in matches : Following(ticks, currentSequence, i) % 2 = 0})
            oddFollowing == n - evenFollowing
        IN  IF n = 0
            THEN [model |-> "pattern", prediction |-> "null", confidence |-> Zero]
            ELSE
                LET evenProb == Rat(evenFollowing, n)
                    oddProb == Rat(oddFollowing, n)
                    base == RMax(evenProb, oddProb)
                    confidence == IF detectAnomaly(ticks) THEN RMul(base, <<7, 10>>) ELSE base
                IN  [model |-> "pattern",
                     prediction |-> IF RLess(oddProb, evenProb) THEN "EVEN" ELSE "ODD",
                     confidence |-> confidence]

----------------------------------------------------------------------------
(* Rule engine *)

streakThreshold == 3
reversalConfidence == <<7, 10>>
fibSequence == {0, 1, 2, 3, 5, 8}

Parity(digit) == IF isEven(digit) THEN "EVEN" ELSE "ODD"
Opposite(p) == IF p = "EVEN" THEN "ODD" ELSE "EVEN"

\* the run of equal parities ending at the last element of recent
RECURSIVE StreakFrom(_, _, _)
StreakFrom(recent, i, count) ==
    IF i >= 1 /\ isEven(recent[i]) = isEven(recent[Len(recent)])
    THEN StreakFrom(recent, i - 1, count + 1)
    ELSE count

\* Rule 3 applied whatever the earlier rules decided
fibAppliesAlways(lastDigit, prediction, confidence) == lastDigit \in fibSequence

\* Rule 3's condition: fibSequence.includes(lastDigit) and
\* (prediction === null || confidence < 0.65)
fibApplies(lastDigit, prediction, confidence) ==
    /\ lastDigit \in fibSequence
    /\ (prediction = "null" \/ RLess(confidence, <<13, 20>>))

\* Analysis.ruleBasedModel with CONFIG.models.ruleBased.streakThreshold = threshold
ruleBasedModelWith(ticks, threshold) ==
    IF Len(ticks) < 5
    THEN [model |-> "ruleBased", prediction |-> "null", confidence |-> Zero,
          rulesApplied |-> <<>>]
    ELSE
        LET recent == SliceLast(ticks, 10)
            lastDigit == recent[Len(recent)]
            streakType == Parity(lastDigit)
            streakCount == StreakFrom(recent, Len(recent) - 1, 1)
            s0 == [prediction |-> "null", confidence |-> Half, rules |-> <<>>]
            s1 == IF streakCount >= threshold
                  THEN [prediction |-> Opposite(streakType),
                        confidence |-> reversalConfidence,
                        rules |-> Append(s0.rules, "Streak reversal")]
                  ELSE s0
            s2 == IF streakCount = 2
                  THEN [prediction |-> streakType,
                        confidence |-> <<3, 5>>,
                        rules |-> Append(s1.rules, "Short streak continuation")]
                  ELSE s1
            s3 == IF fibApplies(lastDigit, s2.prediction, s2.confidence)
                  THEN [prediction |-> Opposite(Parity(lastDigit)),
                        confidence |-> <<13, 20>>,
                        rules |-> Append(s2.rules, "Fibonacci number detected")]
                  ELSE s2
            s4 == IF s3.prediction = "null"
                  THEN [prediction |-> Opposite(Parity(lastDigit)),
                        confidence |-> <<13, 25>>,
                        rules |-> Append(s3.rules, "Default alternation")]
                  ELSE s3
        IN  [model |-> "ruleBased", prediction |-> s4.prediction,
             confidence |-> s4.confidence, rulesApplied |-> s4.rules]

\* ruleBasedModel asking for 10 ticks instead of 5
ruleBasedModelFrom10(ticks) ==
    IF Len(ticks) < 10
    THEN [model |-> "ruleBased", prediction |-> "null", confidence |-> Zero,
          rulesApplied |-> <<>>]
    ELSE ruleBasedModelWith(ticks, streakThreshold)

\* Analysis.ruleBasedModel under the shipped configuration
ruleBasedModel(ticks) == ruleBasedModelWith(ticks, streakThreshold)

----------------------------------------------------------------------------
(* Storage: localStorage behind Storage.getItem / Storage.setItem *)

EmptyTable == [k \in {} |-> Zero]

\* A fresh row that favours ODD
BiasedRow == [EVEN |-> Zero, ODD |-> One]

\* The row of a state seen for the first time
NewRow == [EVEN |-> Zero, ODD |-> Zero]

\* Utils.compressData: btoa(JSON.stringify(v))
compressData(value) == [b64 |-> value]

\* JSON.stringify(v), as ensureStorageStructure stores it
stringify(value) == [json |-> value]

\* Utils.decompressData: JSON.parse(atob(data)), null when atob throws on a
\* string that is not base64, such as plain JSON text
decompressData(data) == IF "b64" \in DOMAIN data THEN Some(data.b64) ELSE None

\* Storage.getDefaultValue('models')
getDefaultValue ==
    [m \in Models |->
        IF m = "reinforcementLearning"
        THEN [accuracy |-> Zero, predictions |-> 0, correct |-> 0, qTable |-> EmptyTable]
        ELSE [accuracy |-> Zero, predictions |-> 0, correct |-> 0]]

\* Storage.getItem: null when the key is absent or when reading throws
getItem(ls, key, readFails) ==
    IF readFails \/ IsNone(ls[key]) THEN None
    ELSE decompressData(ls[key][1])

\* Storage.setItem: the write is dropped (and only logged) when localStorage throws
setItem(ls, key, value, writeFails) ==
    IF writeFails THEN ls
    ELSE [ls EXCEPT ![key] = Some(compressData(value))]

\* Storage.getModels
getModels(ls, readFails) ==
    LET item == getItem(ls, "models", readFails)
    IN  IF IsNone(item) THEN getDefaultValue ELSE item[1]

\* Storage.getQTable
getQTable(ls, readFails) ==
    LET models == getModels(ls, readFails)
    IN  IF "reinforcementLearning" \in DOMAIN models
        THEN models["reinforcementLearning"].qTable
        ELSE EmptyTable

\* Storage.saveQTable: read the models object, replace the table, write it back;
\* an exception anywhere inside is caught and logged
saveQTable(ls, qTable, readFails, writeFails) ==
    LET models == getModels(ls, readFails)
    IN  IF "reinforcementLearning" \notin DOMAIN models THEN ls
        ELSE setItem(ls, "models",
                     [models EXCEPT !["reinforcementLearning"].qTable = qTable],
                     writeFails)

\* Storage.updateModelPerformance with the store readable and writable
updateModelPerformance(ls, modelName, prediction, actual) ==
    LET models == getModels(ls, FALSE)
        old == IF modelName \in DOMAIN models THEN models[modelName]
               ELSE [accuracy |-> Zero, predictions |-> 0, correct |-> 0]
        predictions == old.predictions + 1
        correct == IF prediction = actual THEN old.correct + 1 ELSE old.correct
        new == [old EXCEPT !.predictions = predictions, !.correct = correct,
                           !.accuracy = Rat(correct * 100, predictions)]
    IN  setItem(ls, "models",
                [m \in DOMAIN models \cup {modelName} |->
                    IF m = modelName THEN new ELSE models[m]],
                FALSE)

maxHistorySize == 1000

\* Storage.getTicks / Storage.getTrades: getItem(key) || []
getTicks(ls) ==
    LET item == getItem(ls, "ticks", FALSE) IN IF IsNone(item) THEN <<>> ELSE item[1]
getTrades(ls) ==
    LET item == getItem(ls, "trades", FALSE) IN IF IsNone(item) THEN <<>> ELSE item[1]

\* if (items.length > CONFIG.storage.maxHistorySize) items.shift()
prune(items) == IF Len(items) > maxHistorySize THEN Tail(items) ELSE items

\* Storage.saveTick: the stored array keeps each tick's digit
saveTick(ls, digit) == setItem(ls, "ticks", prune(Append(getTicks(ls), digit)), FALSE)

\* Storage.saveTrade, without the performance summary it also refreshes
saveTrade(ls, trade) == setItem(ls, "trades", prune(Append(getTrades(ls), trade)), FALSE)

\* Storage.init -> ensureStorageStructure on an empty store
InitialStorage ==
    [models |-> Some(stringify(getDefaultValue)),
     ticks |-> Some(stringify(<<>>)),
     trades |-> Some(stringify(<<>>))]

\* The value table a reader of the store obtains
PersistedQTable(ls) == getQTable(ls, FALSE)

----------------------------------------------------------------------------
(* Adaptive learner *)

RowMax(row) == RMax(row.EVEN, row.ODD)

WithRow(qTable, key) ==
    IF key \in DOMAIN qTable THEN qTable ELSE (key :> NewRow) @@ qTable

\* a best-action choice that gives equal values to ODD
exploitStrict(qValues) == IF RLess(qValues.ODD, qValues.EVEN) THEN "EVEN" ELSE "ODD"

\* the exploit branch: qValues.EVEN >= qValues.ODD ? 'EVEN' : 'ODD'
exploit(qValues) == IF RLeq(qValues.ODD, qValues.EVEN) THEN "EVEN" ELSE "ODD"

\* Analysis.reinforcementLearningModel; rand1, rand2 are the two Math.random() draws
reinforcementLearningModel(ticks, ls, readFails, rand1, rand2) ==
    IF Len(ticks) < 20
    THEN [model |-> "reinforcementLearning", prediction |-> "null", confidence |-> Zero]
    ELSE
        LET key == stateKey(getState(ticks))
            qTable == WithRow(getQTable(ls, readFails), key)
            qValues == qTable[key]
            prediction ==
                IF RLess(rand1, explorationRate)
                THEN (IF RLess(rand2, Half) THEN "EVEN" ELSE "ODD")
                ELSE exploit(qValues)
            confidence == RDiv(RowMax(qValues), FromInt(10))
        IN  [model |-> "reinforcementLearning",
             prediction |-> prediction,
             confidence |-> RMin(confidence, One)]

\* The rule with the subtraction of the current value forgotten
QUpdateNoDecay(currentQ, reward, maxNextQ) ==
    RAdd(currentQ,
         RMul(learningRate, RAdd(FromInt(reward), RMul(discountFactor, maxNextQ))))

\* The temporal-difference rule of updateQLearning
QUpdate(currentQ, reward, maxNextQ) ==
    RAdd(currentQ,
         RMul(learningRate,
              RSub(RAdd(FromInt(reward), RMul(discountFactor, maxNextQ)), currentQ)))

\* The table updateQLearning hands to Storage.saveQTable, from the table it read
UpdatedTable(read, key, action, reward, newKey) ==
    LET qTable == WithRow(WithRow(read, key), newKey)
        currentQ == qTable[key][action]
        maxNextQ == RowMax(qTable[newKey])
    IN  [qTable EXCEPT ![key][action] = QUpdate(currentQ, reward, maxNextQ)]

\* Analysis.updateQLearning on the store
updateQLearning(ls, key, action, reward, newKey, f) ==
    saveQTable(ls, UpdatedTable(getQTable(ls, f.read1), key, action, reward, newKey),
               f.read2, f.write)

----------------------------------------------------------------------------
(* Weighting strategy and fusion gate *)

RECURSIVE SumSeq(_, _)
SumSeq(xs, i) == IF i > Len(xs) THEN Zero ELSE RAdd(xs[i], SumSeq(xs, i + 1))

\* calculateWeights whose performance branch skips the division by the total
calculateWeightsRaw(predictions, method, models) ==
    [i \in 1 .. Len(predictions) |->
        IF method = "performance"
        THEN (IF predictions[i].model \in DOMAIN models
              THEN RDiv(models[predictions[i].model].accuracy, FromInt(100)) ELSE Half)
        ELSE Rat(1, Len(predictions))]

\* Analysis.calculateWeights; models is what Storage.getModels() returned
calculateWeights(predictions, method, models) ==
    LET n == Len(predictions)
        equal == [i \in 1 .. n |-> Rat(1, n)]
        accuracies ==
            [i \in 1 .. n |->
                IF predictions[i].model \in DOMAIN models
                THEN RDiv(models[predictions[i].model].accuracy, FromInt(100))
                ELSE Half]
        totalAccuracy == SumSeq(accuracies, 1)
        confidences == [i \in 1 .. n |-> predictions[i].confidence]
        totalConfidence == SumSeq(confidences, 1)
    IN  CASE method = "equal" -> equal
          [] method = "performance" ->
                [i \in 1 .. n |->
                    IF RLess(Zero, totalAccuracy)
                    THEN RDiv(accuracies[i], totalAccuracy) ELSE Rat(1, n)]
          [] method = "confidence" ->
                [i \in 1 .. n |->
                    IF RLess(Zero, totalConfidence)
                    THEN RDiv(confidences[i], totalConfidence) ELSE Rat(1, n)]
          [] OTHER -> equal

\* One iteration of the simulation: walk the list until the cumulative
\* confidence / n reaches randomValue, then draw the win with that model's confidence
RECURSIVE MCWalk(_, _, _, _, _)
MCWalk(predictions, j, cumulativeProbability, randomValue, winDraw) ==
    IF j > Len(predictions) THEN 0
    ELSE
        LET cum == RAdd(cumulativeProbability,
                        RDiv(predictions[j].confidence, FromInt(Len(predictions))))
        IN  IF RLeq(randomValue, cum)
            THEN (IF RLess(winDraw, predictions[j].confidence) THEN 1 ELSE 0)
            ELSE MCWalk(predictions, j + 1, cum, randomValue, winDraw)

\* The Math.random() pairs of a simulation: iterations 1 .. plan.k draw plan.a,
\* the later ones draw plan.b
DrawOf(plan, i) == IF i <= plan.k THEN plan.a ELSE plan.b

\* The wins of iterations 1 .. iterations: the first plan.k of them draw plan.a
MCWins(predictions, iterations, plan) ==
    LET first == IF plan.k <= iterations THEN plan.k ELSE iterations
    IN  first * MCWalk(predictions, 1, Zero, plan.a[1], plan.a[2])
        + (iterations - first) * MCWalk(predictions, 1, Zero, plan.b[1], plan.b[2])

\* Analysis.runMonteCarloSimulation
runMonteCarloSimulation(predictions, iterations, plan) ==
    LET wins == MCWins(predictions, iterations, plan)
    IN  [winProbability |-> IF iterations = 0 THEN NaN ELSE Rat(wins, iterations),
         iterations |-> iterations,
         wins |-> wins]

MCIterations == 100

\* The sum of lines 397-403 without the weights
RECURSIVE ScoreOfUnweighted(_, _, _, _)
ScoreOfUnweighted(predictions, weights, parity, i) ==
    IF i > Len(predictions) THEN Zero
    ELSE RAdd(IF predictions[i].prediction = parity
              THEN predictions[i].confidence ELSE Zero,
              ScoreOfUnweighted(predictions, weights, parity, i + 1))

RECURSIVE ScoreOf(_, _, _, _)
ScoreOf(predictions, weights, parity, i) ==
    IF i > Len(predictions) THEN Zero
    ELSE RAdd(IF predictions[i].prediction = parity
              THEN RMul(predictions[i].confidence, weights[i]) ELSE Zero,
              ScoreOf(predictions, weights, parity, i + 1))

\* The comparison of line 406 with the tie going to EVEN
finalPredictionTieEven(evenScore, oddScore) ==
    IF RLeq(oddScore, evenScore) THEN "EVEN" ELSE "ODD"

\* evenScore > oddScore ? 'EVEN' : 'ODD'
finalPredictionOf(evenScore, oddScore) ==
    IF RLess(oddScore, evenScore) THEN "EVEN" ELSE "ODD"

\* The gate of line 421 run for every ensembleMethod
gateRunsAlways(shouldTrade, cfg) == shouldTrade

\* shouldTrade && CONFIG.strategy.ensembleMethod === 'weighted'
gateRuns(shouldTrade, cfg) == shouldTrade /\ cfg.ensembleMethod = "weighted"

\* The comparison of line 423 with <= in place of <
vetoesAtHalf(simResult) ==
    ~IsNaN(simResult.winProbability) /\ RLeq(simResult.winProbability, Half)

\* simResult.winProbability < 0.5, which is false for NaN
vetoes(simResult) ==
    ~IsNaN(simResult.winProbability) /\ RLess(simResult.winProbability, Half)

\* Analysis.fuseDecisions past its empty-list return; calls lists the stages
\* the pass went through
fuseNonEmpty(predictions, cfg, models, plan) ==
    LET weights == calculateWeights(predictions, cfg.weightMethod, models)
        evenScore == ScoreOf(predictions, weights, "EVEN", 1)
        oddScore == ScoreOf(predictions, weights, "ODD", 1)
        totalScore == RAdd(evenScore, oddScore)
        finalPrediction == finalPredictionOf(evenScore, oddScore)
        confidence == IF RLess(Zero, totalScore)
                      THEN RDiv(RMax(evenScore, oddScore), totalScore) ELSE Zero
        shouldTrade == RLeq(Rat(cfg.minConfidence, 100), confidence)
        reason == IF shouldTrade THEN "Strong signal" ELSE "Confidence below threshold"
        gate == gateRuns(shouldTrade, cfg)
        simResult == runMonteCarloSimulation(predictions, MCIterations, plan)
    IN  IF gate /\ vetoes(simResult)
        THEN [finalPrediction |-> finalPrediction, confidence |-> confidence,
              shouldTrade |-> FALSE,
              reason |-> "Monte Carlo simulation suggests unfavorable odds",
              modelBreakdown |-> predictions,
              scores |-> None, simulation |-> Some(simResult),
              calls |-> <<"calculateWeights", "runMonteCarloSimulation">>]
        ELSE [finalPrediction |-> finalPrediction, confidence |-> confidence,
              shouldTrade |-> shouldTrade, reason |-> reason,
              modelBreakdown |-> predictions,
              scores |-> Some([evenScore |-> evenScore, oddScore |-> oddScore]),
              simulation |-> None,
              calls |-> IF gate THEN <<"calculateWeights", "runMonteCarloSimulation">>
                        ELSE <<"calculateWeights">>]

\* fuseDecisions without the return of lines 380-388
fuseDecisionsNoShortCircuit(predictions, cfg, models, plan) ==
    fuseNonEmpty(predictions, cfg, models, plan)

\* Analysis.fuseDecisions
fuseDecisions(predictions, cfg, models, plan) ==
    IF Len(predictions) = 0
    THEN [finalPrediction |-> "null", confidence |-> Zero, shouldTrade |-> FALSE,
          reason |-> "No models provided predictions", modelBreakdown |-> <<>>,
          scores |-> None, simulation |-> None, calls |-> <<>>]
    ELSE fuseNonEmpty(predictions, cfg, models, plan)

----------------------------------------------------------------------------
(* DerivBot (script.js): the fields the trading and connection paths read   *)
(* and write                                                                *)

maxReconnectAttempts == 10
maxMissedPongs == 3

\* The constructor's state; sent holds the buy requests on the wire, contracts
\* the server's contracts by id, trades what Storage.saveTrade stored, qCalls
\* the contract of each updateQLearning call. ws is the socket this.ws refers
\* to, detached the sockets the bot let go of with handlers still attached,
\* reconnectTimer the timer id in this.reconnectTimer (0 for null), timers the
\* ids of the pending timers that attemptReconnection set, onlineTimers the
\* pending one-second timers of the window's online listener, predictionValue
\* the text of the prediction display, nStops the calls of handleEmergencyStop
NewBot ==
    [isConnected |-> FALSE, lastTradeTime |-> 0, consecutiveLosses |-> 0,
     dailyLoss |-> 0, sent |-> <<>>, contracts |-> <<>>, trades |-> <<>>,
     qCalls |-> <<>>, nSim |-> 0, nTicks |-> 0,
     ws |-> None, detached |-> <<>>, emergencyStop |-> FALSE,
     reconnectAttempts |-> 0, reconnectTimer |-> 0, timers |-> {},
     onlineTimers |-> 0, isReconnecting |-> FALSE, shouldReconnect |-> TRUE,
     pingInterval |-> FALSE, pongTimeout |-> FALSE, missedPongs |-> 0,
     predictionValue |-> "-", manualTradeDisabled |-> TRUE, nStops |-> 0]

\* new WebSocket(wsUrl) with the four handlers of establishConnection attached;
\* closeFired says whether its close event has been dispatched
Socket(readyState) == [readyState |-> readyState, handlers |-> TRUE, closeFired |-> FALSE]

\* this.ws && this.ws.readyState === WebSocket.OPEN
wsOpen(b) == ~IsNone(b.ws) /\ b.ws[1].readyState = "OPEN"

\* DerivBot.stopHeartbeat
stopHeartbeat(b) == [b EXCEPT !.pingInterval = FALSE, !.pongTimeout = FALSE]

\* DerivBot.startHeartbeat
startHeartbeat(b) == [stopHeartbeat(b) EXCEPT !.pingInterval = TRUE]

\* a cleanup that leaves the handlers on the socket
detachNothing(socket) == socket

\* cleanupConnection: ws.onopen = ws.onmessage = ws.onerror = ws.onclose = null
detach(socket) == [socket EXCEPT !.handlers = FALSE]

\* DerivBot.cleanupConnection: a socket without handlers that nothing refers to
\* can no longer act on the bot and is dropped
cleanupConnection(b) ==
    LET h == stopHeartbeat(b)
    IN  IF IsNone(h.ws) THEN h
        ELSE LET d == detach(h.ws[1])
                 closed == IF d.readyState \in {"OPEN", "CONNECTING"}
                           THEN [d EXCEPT !.readyState = "CLOSING"] ELSE d
             IN  [h EXCEPT !.ws = None,
                           !.detached = IF closed.handlers THEN Append(@, closed) ELSE @]

\* a clearTimeout that cancels nothing
clearTimeoutNothing(timers, id) == timers

\* clearTimeout(id): no effect for null and for a timer that has fired
clearTimeout(timers, id) == timers \ {id}

\* The id setTimeout returns: one that no pending timer and no field holds
FreshTimer(b) ==
    CHOOSE id \in 1 .. Cardinality(b.timers) + 2 :
        /\ id \notin b.timers \cup {b.reconnectTimer}
        /\ \A other \in 1 .. id - 1 : other \in b.timers \cup {b.reconnectTimer}

\* DerivBot.attemptReconnection
attemptReconnection(b) ==
    IF ~b.shouldReconnect \/ b.emergencyStop THEN b
    ELSE LET id == FreshTimer(b)
         IN  [b EXCEPT !.reconnectAttempts = @ + 1,
                       !.timers = clearTimeout(@, b.reconnectTimer) \cup {id},
                       !.reconnectTimer = id]

\* DerivBot.forceReconnect
forceReconnect(b) ==
    LET c == cleanupConnection(b)
    IN  IF c.shouldReconnect /\ ~c.emergencyStop THEN attemptReconnection(c) ELSE c

\* DerivBot.sendMessage; fails says whether ws.send throws
sendMessage(b, fails) ==
    IF wsOpen(b)
    THEN (IF fails /\ b.shouldReconnect /\ ~b.emergencyStop THEN forceReconnect(b) ELSE b)
    ELSE (IF b.shouldReconnect /\ ~b.emergencyStop /\ ~b.isReconnecting
          THEN attemptReconnection(b) ELSE b)

\* DerivBot.handleDisconnect
handleDisconnect(w) ==
    [w EXCEPT !.bot.isConnected = FALSE, !.config.autoTrade = FALSE]

\* DerivBot.disconnect
disconnect(w) ==
    LET b == w.bot
        cleared == [b EXCEPT !.shouldReconnect = FALSE,
                             !.timers = clearTimeout(@, b.reconnectTimer),
                             !.reconnectTimer = 0]
    IN  handleDisconnect([w EXCEPT !.bot = cleanupConnection(cleared)])

\* DerivBot.handleEmergencyStop
handleEmergencyStop(w) ==
    disconnect([w EXCEPT !.bot.emergencyStop = TRUE, !.bot.shouldReconnect = FALSE,
                         !.bot.nStops = @ + 1, !.config.autoTrade = FALSE])

\* DerivBot.handleConnectionError
handleConnectionError(b) ==
    IF ~b.shouldReconnect \/ b.emergencyStop THEN b ELSE attemptReconnection(b)

\* DerivBot.handleConnectionClose on a close event
handleConnectionClose(w, wasClean, code) ==
    LET b == stopHeartbeat([w.bot EXCEPT !.isReconnecting = FALSE])
        v == [w EXCEPT !.bot = b]
    IN  IF wasClean \/ ~b.shouldReconnect \/ b.emergencyStop THEN handleDisconnect(v)
        ELSE IF code # 1000 /\ code # 1001 /\ b.reconnectAttempts < maxReconnectAttempts
        THEN [v EXCEPT !.bot = attemptReconnection(b)]
        ELSE handleDisconnect(v)

\* DerivBot.establishConnection; throws says whether new WebSocket(wsUrl) throws
establishConnection(b, throws) ==
    IF b.isReconnecting THEN b
    ELSE LET started == [b EXCEPT !.isReconnecting = TRUE]
             cleaned == IF IsNone(started.ws) THEN started ELSE cleanupConnection(started)
         IN  IF throws THEN handleConnectionError(cleaned)
             ELSE [cleaned EXCEPT !.ws = Some(Socket("CONNECTING"))]

\* DerivBot.connect; valid says whether the app id and token fields pass validation
connect(b, valid, throws) ==
    IF ~valid THEN b
    ELSE establishConnection([b EXCEPT !.shouldReconnect = TRUE], throws)

\* DerivBot.onConnectionOpen, with the authorize request it sends
onConnectionOpen(b, fails) ==
    sendMessage(startHeartbeat([b EXCEPT !.isReconnecting = FALSE,
                                         !.reconnectAttempts = 0,
                                         !.missedPongs = 0,
                                         !.timers = clearTimeout(@, b.reconnectTimer),
                                         !.reconnectTimer = 0]),
                fails)

\* DerivBot.handleAuthorize, with the subscription it sends
handleAuthorize(b, fails) ==
    [sendMessage([b EXCEPT !.isConnected = TRUE], fails) EXCEPT !.reconnectAttempts = 0]

\* DerivBot.sendPing
sendPing(b, fails) == [sendMessage(b, fails) EXCEPT !.pongTimeout = TRUE]

\* DerivBot.handlePong
handlePong(b) == [b EXCEPT !.pongTimeout = FALSE, !.missedPongs = 0]

\* the callback of sendPing's timer
pongTimedOut(b) ==
    LET missed == [b EXCEPT !.pongTimeout = FALSE, !.missedPongs = @ + 1]
    IN  IF missed.missedPongs >= maxMissedPongs THEN forceReconnect(missed) ELSE missed

\* DerivBot.handleError on an error message with this code
handleError(w, code) ==
    CASE code = "InvalidToken" -> handleDisconnect([w EXCEPT !.bot.shouldReconnect = FALSE])
      [] code = "DisconnectClientError" -> disconnect([w EXCEPT !.bot.shouldReconnect = FALSE])
      [] OTHER -> w

\* The bot once the socket is open and the authorize response has arrived
ConnectedBot ==
    [NewBot EXCEPT !.isConnected = TRUE, !.ws = Some(Socket("OPEN")), !.pingInterval = TRUE]

----------------------------------------------------------------------------
(* Top-level decision call *)

ModelOrder == <<"statistical", "pattern", "ruleBased", "reinforcementLearning">>

\* Analysis.getEnabledModels
getEnabledModels(cfg) == SelectSeq(ModelOrder, LAMBDA m : m \in cfg.enabled)

\* The outcome of calling one model function: it returns a value or throws
Returned(v) == [threw |-> FALSE, value |-> v]
Thrown == [threw |-> TRUE, value |-> None]

\* env: the part of the environment a decision pass reads: which model functions
\* throw, the learner's two random draws, whether the learner's read of the store
\* (qReadFails) and the weighting stage's read (wReadFails) fail
ModelCall(modelName, ticks, ls, env) ==
    IF modelName \in env.throwing THEN Thrown
    ELSE CASE modelName = "statistical" -> Returned(Some(statisticalModel(ticks)))
           [] modelName = "pattern" -> Returned(Some(patternModel(ticks)))
           [] modelName = "ruleBased" -> Returned(Some(ruleBasedModel(ticks)))
           [] modelName = "reinforcementLearning" ->
                Returned(Some(reinforcementLearningModel(ticks, ls, env.qReadFails,
                                                         env.rand1, env.rand2)))
           [] OTHER -> Returned(None)

\* runModel without its try/catch: a throw of the model function escapes
runModelNoCatch(modelName, ticks, ls, env) == ModelCall(modelName, ticks, ls, env)

\* Analysis.runModel: the try/catch turns a throw into null
runModel(modelName, ticks, ls, env) ==
    LET r == ModelCall(modelName, ticks, ls, env)
    IN  IF r.threw THEN Returned(None) ELSE r

\* Analysis.predict
predict(ticks, cfg, ls, env, plan) ==
    LET enabledModels == getEnabledModels(cfg)
        results == [i \in 1 .. Len(enabledModels) |-> runModel(enabledModels[i], ticks, ls, env)]
        kept == SelectSeq(results, LAMBDA r : ~r.threw /\ ~IsNone(r.value))
        predictions == [i \in 1 .. Len(kept) |-> kept[i].value[1]]
    IN  IF \E i \in 1 .. Len(results) : results[i].threw
        THEN Thrown
        ELSE Returned(fuseDecisions(predictions, cfg, getModels(ls, env.wReadFails), plan))

----------------------------------------------------------------------------
(* The learner and the single models as a state machine: a caller holding a  *)
(* tick history runs single models and reports settled wagers                *)

Bit(b) == IF b THEN 1 ELSE 0
Idle == [op |-> "idle"]

\* CONFIG as shipped (config.js), with the learner switched on
DefaultConfig ==
    [enabled |-> Models, weightMethod |-> "performance", ensembleMethod |-> "weighted",
     minConfidence |-> 60]

Histories ==
    { <<1, 2, 3, 4, 5, 6, 7, 8, 9, 0, 1, 2, 3, 4, 5, 6, 7, 8, 9, 0>>,
      <<2, 4, 1, 3, 3, 8, 6, 5, 0, 2, 7, 7, 4, 9, 1, 6, 8, 2, 4, 6, 4>>,
      <<5, 7, 2, 2, 9, 1, 4, 4, 6>>,
      <<3, 8, 8, 1>>,
      <<1, 2, 3, 4, 5, 6, 7, 8, 9, 0, 1, 2, 3, 4, 5, 6, 7, 8, 9>>,
      <<4, 7, 7, 0, 2, 6, 6, 1, 9, 3>>,
      <<6, 1, 8, 8, 5>>,
      <<>> }

\* Values Math.random() can return, on both sides of the thresholds it is compared with
RandomDraws == {Zero, Half}

\* A state key other than the current one, for feedback calls that name two states
OtherKey == stateKey(getState(<<1, 3, 5, 7, 9>>))
CurrentKeys(ticks) == IF Len(ticks) >= 5 THEN {stateKey(getState(ticks))} ELSE {OtherKey}

NoThrow(m) == [throwing : {{}, {m}}, rand1 : {Zero}, rand2 : {Zero},
               qReadFails : {FALSE}, wReadFails : {FALSE}]
LearnerEnvs == [throwing : {{}}, rand1 : RandomDraws, rand2 : RandomDraws,
                qReadFails : BOOLEAN, wReadFails : {FALSE}]
ModelEnvs(m) == IF m = "reinforcementLearning" THEN LearnerEnvs \cup NoThrow(m) ELSE NoThrow(m)

StorageFaults == [read1 : BOOLEAN, read2 : BOOLEAN, write : BOOLEAN]

Init ==
    /\ tickBuffer \in Histories
    /\ localStorage = InitialStorage
    /\ config = DefaultConfig
    /\ last = Idle
    /\ nFeedback = 0
    /\ nFaults = 0
    /\ bot = NewBot

\* One model run through Analysis.runModel
RunModel(m, env) ==
    /\ last = Idle
    /\ nFaults + Bit(env.qReadFails) <= MaxFaults
    /\ nFaults' = nFaults + Bit(env.qReadFails)
    /\ last' = [op |-> "runModel", model |-> m, env |-> env,
                before |-> PersistedQTable(localStorage),
                out |-> runModel(m, tickBuffer, localStorage, env)]
    /\ UNCHANGED <<tickBuffer, localStorage, config, nFeedback, bot>>

\* Analysis.updateQLearning after a settled wager; f says which storage accesses fail
Feedback(key, action, reward, newKey, f) ==
    /\ last = Idle
    /\ nFeedback < MaxFeedback
    /\ nFaults + Bit(f.read1) + Bit(f.read2) + Bit(f.write) <= MaxFaults
    /\ nFaults' = nFaults + Bit(f.read1) + Bit(f.read2) + Bit(f.write)
    /\ localStorage' = updateQLearning(localStorage, key, action, reward, newKey, f)
    /\ nFeedback' = nFeedback + 1
    /\ last' = [op |-> "updateQLearning", key |-> key, action |-> action,
                reward |-> reward, newKey |-> newKey, f |-> f,
                before |-> PersistedQTable(localStorage),
                read |-> getQTable(localStorage, f.read1)]
    /\ UNCHANGED <<tickBuffer, config, bot>>

\* The call has returned and its result has been consumed
Return ==
    /\ last # Idle
    /\ last.op # "input"
    /\ last' = Idle
    /\ UNCHANGED <<tickBuffer, localStorage, config, nFeedback, nFaults, bot>>

Next ==
    \/ \E m \in Models : \E env \in ModelEnvs(m) : RunModel(m, env)
    \/ \E key \in CurrentKeys(tickBuffer), action \in Actions, reward \in Rewards :
          \E newKey \in {key, OtherKey}, f \in StorageFaults :
            Feedback(key, action, reward, newKey, f)
    \/ Return

Spec == Init /\ [][Next]_vars

----------------------------------------------------------------------------
(* Claims about the learner and the single models, checked under Spec *)

IsRunModel == last.op = "runModel"
IsFeedback == last.op = "updateQLearning"
Returned1(out) == ~out.threw /\ ~IsNone(out.value)
CurrentKey == stateKey(getState(tickBuffer))
LearnerRan ==
    /\ IsRunModel
    /\ last.model = "reinforcementLearning"
    /\ Returned1(last.out)
    /\ Len(tickBuffer) >= 20

\* C1: every model returns EVEN, ODD or none with a confidence in [0,1], and none
\* comes with confidence 0, whatever the history and the value table reached by
\* feedback with rewards +1 / -1.
C1_ModelOutputInRange ==
    (IsRunModel /\ Returned1(last.out)) =>
        LET p == last.out.value[1]
        IN  /\ p.prediction \in {"EVEN", "ODD", "null"}
            /\ InUnitInterval(p.confidence)
            /\ (p.prediction = "null" => p.confidence = Zero)

\* C5: the key set of the persisted value table only grows across a feedback call,
\* also when a storage access of that call fails.
C5_KeysOnlyGrow ==
    IsFeedback => DOMAIN last.before \subseteq DOMAIN PersistedQTable(localStorage)

\* The value before the update, 0 for a row the table does not hold yet
ValueIn(table, key, action) == IF key \in DOMAIN table THEN table[key][action] ELSE Zero
MaxIn(table, key) == RMax(ValueIn(table, key, "EVEN"), ValueIn(table, key, "ODD"))

\* C6: updateQLearning creates the missing rows of both keys as {0, 0}, sets
\* Q[state][action] to Q + alpha (reward + gamma max Q[newState] - Q) from the
\* values before the update (here 9/10 Q + reward/10 + 19/200 max), leaves every
\* other entry as it read it, and from an unseen state with reward +1 and a
\* zero next row the new value is exactly 1/10. Stated of the table a reader finds
\* after a call whose write went through, against the table the call read.
C6_UpdateRule ==
    (IsFeedback /\ ~last.f.write) =>
        LET read == last.read
            after == PersistedQTable(localStorage)
            q0 == ValueIn(read, last.key, last.action)
            m0 == MaxIn(read, last.newKey)
            expected == RAdd(RAdd(RMul(<<9, 10>>, q0), Rat(last.reward, 10)),
                             RMul(<<19, 200>>, m0))
        IN  /\ DOMAIN after = DOMAIN read \cup {last.key, last.newKey}
            /\ after[last.key][last.action] = expected
            /\ \A k \in DOMAIN after : \A a \in Actions :
                    (k # last.key \/ a # last.action) => after[k][a] = ValueIn(read, k, a)
            /\ (last.key \notin DOMAIN read /\ last.reward = 1 /\ m0 = Zero)
                    => after[last.key][last.action] = <<1, 10>>

\* C6 witness: a first update of an unseen state that is its own next state
C6_Witness ==
    /\ IsFeedback /\ ~last.f.write
    /\ last.key = last.newKey
    /\ last.key \notin DOMAIN last.read
    /\ last.reward = 1
    /\ PersistedQTable(localStorage)[last.key][last.action] = <<1, 10>>

\* C7: when a feedback call has returned, a following read of the value table
\* returns the table with the update applied (the call never raises, so an
\* update that is not there has been lost silently).
C7_UpdatePersistedOnReturn ==
    IsFeedback =>
        PersistedQTable(localStorage)
            = UpdatedTable(last.before, last.key, last.action, last.reward, last.newKey)

\* C8 as claimed: after a learner prediction for a state, the persisted value
\* table holds a row for that state's key.
C8_PredictionCreatesRow ==
    LearnerRan => CurrentKey \in DOMAIN PersistedQTable(localStorage)

\* C8 as amended: a learner prediction for a state whose key the table lacks
\* works on the row {EVEN: 0, ODD: 0} in its own copy (confidence 0, EVEN when it
\* exploits) and writes nothing: the persisted table is the one before the call
\* and still lacks the key.
C8_PredictionUsesFreshRowOnly ==
    (LearnerRan /\ CurrentKey \notin DOMAIN last.before) =>
        LET p == last.out.value[1]
        IN  /\ p.confidence = Zero
            /\ (~RLess(last.env.rand1, explorationRate) => p.prediction = "EVEN")
            /\ PersistedQTable(localStorage) = last.before
            /\ CurrentKey \notin DOMAIN PersistedQTable(localStorage)

\* C8 witness: an exploiting learner prediction for a state the table lacks
C8_Witness ==
    /\ LearnerRan
    /\ CurrentKey \notin DOMAIN last.before
    /\ ~RLess(last.env.rand1, explorationRate)
    /\ last.out.value[1].prediction = "EVEN"

----------------------------------------------------------------------------
(* The decision call as a state machine: a caller asks for decisions on its  *)
(* history under some configuration and reports the wagers that settled      *)

PredictHistories ==
    { <<1, 2, 3, 4, 5, 6, 7, 8, 9, 0, 1, 2, 3, 4, 5, 6, 7, 8, 9, 0>>,
      <<2, 4, 1, 3, 3, 8, 6, 5, 0, 8, 2, 4, 6, 0, 8, 2, 4, 6, 0, 8, 2, 4>> }

PredictConfigs ==
    { [enabled |-> c[1], weightMethod |-> "performance", ensembleMethod |-> c[2],
       minConfidence |-> 60] :
        c \in { <<Models, "weighted">>, <<Models, "voting">>,
                <<{"ruleBased", "reinforcementLearning"}, "weighted">> } }

\* At most one model function throws in a pass; the second draw of the learner
\* matters only when the first one makes it explore
PredictEnvs ==
    { env \in [throwing : {{}} \cup {{m} : m \in Models}, rand1 : RandomDraws,
               rand2 : RandomDraws, qReadFails : {FALSE}, wReadFails : {FALSE}] :
        env.rand1 = Zero \/ env.rand2 = Half }

\* The first plan.k of the 100 simulated iterations pick the first model and win
\* when its confidence is positive, the others pick it and win only above 19/20
DrawPlans ==
    { [k |-> k, a |-> <<Zero, Zero>>, b |-> <<Zero, <<19, 20>>>>] : k \in {49, 50} }

InitPredict ==
    /\ tickBuffer \in PredictHistories
    /\ localStorage = InitialStorage
    /\ config \in PredictConfigs
    /\ last = Idle
    /\ nFeedback = 0
    /\ nFaults = 0
    /\ bot = NewBot

\* Analysis.predict on the current history
Predict(env, plan) ==
    /\ last = Idle
    /\ last' = [op |-> "predict", env |-> env, plan |-> plan,
                out |-> predict(tickBuffer, config, localStorage, env, plan)]
    /\ UNCHANGED <<tickBuffer, localStorage, config, nFeedback, nFaults, bot>>

\* A wager on the current state settled: updateQLearning(state, action, reward, state)
SettledFeedback(action, reward) ==
    Feedback(CurrentKey, action, reward, CurrentKey,
             [read1 |-> FALSE, read2 |-> FALSE, write |-> FALSE])

NextPredict ==
    \/ \E env \in PredictEnvs, plan \in DrawPlans : Predict(env, plan)
    \/ \E action \in Actions, reward \in Rewards : SettledFeedback(action, reward)
    \/ Return

SpecPredict == InitPredict /\ [][NextPredict]_vars

IsPredict == last.op = "predict"

\* C2: the Decision returned by predict has a confidence in [0,1], whatever the
\* models returned, the learner included after any feedback.
C2_DecisionConfidenceInRange ==
    (IsPredict /\ ~last.out.threw) => InUnitInterval(last.out.value.confidence)

\* The pass with the throwing models switched off instead
AsIfDisabled ==
    predict(tickBuffer, [config EXCEPT !.enabled = @ \ last.env.throwing], localStorage,
            [last.env EXCEPT !.throwing = {}], last.plan)

\* C3: when a model function throws, predict still returns a Decision, the model
\* is absent from modelBreakdown, and the Decision is the one the other enabled
\* models give with the failing model disabled.
C3_ThrowingModelIsExcluded ==
    IsPredict =>
        /\ ~last.out.threw
        /\ \A i \in 1 .. Len(last.out.value.modelBreakdown) :
                last.out.value.modelBreakdown[i].model \notin last.env.throwing
        /\ last.out = AsIfDisabled

\* C3 witness: an enabled model threw and the others were fused
C3_Witness ==
    /\ IsPredict
    /\ last.env.throwing # {}
    /\ last.env.throwing \subseteq config.enabled
    /\ ~last.out.threw
    /\ Len(last.out.value.modelBreakdown) = Cardinality(config.enabled) - 1
    /\ last.out.value.finalPrediction \in {"EVEN", "ODD"}

----------------------------------------------------------------------------
(* fuseDecisions as a function of the list it is given *)

\* What one model contributes to a list: nothing, no opinion, or a parity
Contributions(m) ==
    {None} \cup
    (IF m = "reinforcementLearning"
     THEN { Some([model |-> m, prediction |-> p, confidence |-> c]) :
                p \in Actions, c \in {Zero, <<-1, 100>>, <<1, 100>>} }
     ELSE { Some([model |-> m, prediction |-> "null", confidence |-> Zero]) } \cup
          { Some([model |-> m, prediction |-> p, confidence |-> c]) :
                p \in Actions, c \in {Half, <<13, 20>>} })

PredictionLists ==
    { a \o b \o c : a \in Contributions("pattern"), b \in Contributions("ruleBased"),
                    c \in Contributions("reinforcementLearning") }

FusionConfigs ==
    { [enabled |-> Models, weightMethod |-> w, ensembleMethod |-> g, minConfidence |-> 60] :
        w \in {"equal", "performance", "confidence"},
        g \in {"weighted", "voting", "stacking", "unknown"} }

InitFusion ==
    /\ tickBuffer = <<>>
    /\ localStorage = InitialStorage
    /\ config \in FusionConfigs
    /\ \E ps \in PredictionLists : last = [op |-> "input", predictions |-> ps]
    /\ nFeedback = 0
    /\ nFaults = 0
    /\ bot = NewBot

\* Analysis.fuseDecisions(predictions)
Fuse(plan) ==
    /\ last.op = "input"
    /\ last' = [op |-> "fuseDecisions", predictions |-> last.predictions, plan |-> plan,
                out |-> fuseDecisions(last.predictions, config,
                                      getModels(localStorage, FALSE), plan)]
    /\ UNCHANGED <<tickBuffer, localStorage, config, nFeedback, nFaults, bot>>

\* Iteration counts a caller can pass to runMonteCarloSimulation
SimIterations == {0, 100}

\* Draws for the simulation alone: the plans of the decision call, and one whose
\* first draws are 1/4 and 19/20
SimPlans ==
    DrawPlans \cup {[k |-> 50, a |-> <<Rat(1, 4), Zero>>, b |-> <<Rat(19, 20), Zero>>]}

\* Analysis.runMonteCarloSimulation(predictions, iterations) on a non-empty list,
\* and the comparison the gate makes on its result
Simulate(iterations, plan) ==
    /\ last.op = "input"
    /\ last.predictions # <<>>
    /\ \E simResult \in {runMonteCarloSimulation(last.predictions, iterations, plan)} :
            last' = [op |-> "runMonteCarloSimulation", predictions |-> last.predictions,
                     iterations |-> iterations, plan |-> plan, out |-> simResult,
                     rejects |-> vetoes(simResult)]
    /\ UNCHANGED <<tickBuffer, localStorage, config, nFeedback, nFaults, bot>>

NextFusion ==
    \/ \E plan \in DrawPlans : Fuse(plan)
    \/ \E iterations \in SimIterations, plan \in SimPlans : Simulate(iterations, plan)

SpecFusion == InitFusion /\ [][NextFusion]_vars

IsFuse == last.op = "fuseDecisions"

\* C4: on an empty prediction list fuseDecisions returns finalPrediction none,
\* confidence 0, shouldTrade false and a non-empty reason, and reaches neither
\* calculateWeights nor the Monte Carlo simulation.
C4_EmptyListShortCircuits ==
    (IsFuse /\ Len(last.predictions) = 0) =>
        /\ last.out.finalPrediction = "null"
        /\ last.out.confidence = Zero
        /\ ~last.out.shouldTrade
        /\ last.out.reason # ""
        /\ last.out.calls = <<>>

\* C4 witness: fuseDecisions has returned on an empty list
C4_Witness ==
    /\ IsFuse
    /\ last.predictions = <<>>
    /\ last.out.modelBreakdown = <<>>

\* The two scores of lines 394-403, from the list and the weights
EvenScoreIn ==
    ScoreOf(last.predictions,
            calculateWeights(last.predictions, config.weightMethod,
                             getModels(localStorage, FALSE)), "EVEN", 1)
OddScoreIn ==
    ScoreOf(last.predictions,
            calculateWeights(last.predictions, config.weightMethod,
                             getModels(localStorage, FALSE)), "ODD", 1)

\* C10: when evenScore equals oddScore, both 0 included, finalPrediction is ODD;
\* finalPrediction is EVEN only when evenScore is strictly greater than oddScore.
C10_TieGoesToOdd ==
    (IsFuse /\ Len(last.predictions) > 0) =>
        /\ (EvenScoreIn = OddScoreIn) => last.out.finalPrediction = "ODD"
        /\ (last.out.finalPrediction = "EVEN") => RLess(OddScoreIn, EvenScoreIn)
        /\ last.out.finalPrediction \in {"EVEN", "ODD"}

\* C10 witness: two opposite votes of equal positive weight tie
C10_Witness ==
    /\ IsFuse
    /\ EvenScoreIn = OddScoreIn
    /\ RLess(Zero, EvenScoreIn)
    /\ last.out.finalPrediction = "ODD"

----------------------------------------------------------------------------
(* The bot around the decision call: ticks arrive, decisions become wagers,  *)
(* the server reports the contracts, settlements feed the learner            *)

\* Amounts in cents
baseStake == 35
minStake == 35
maxStake == 100 * 100
maxConsecutiveLosses == 5
maxDailyLoss == 50 * 100

Max2(a, b) == IF a >= b THEN a ELSE b
Min2(a, b) == IF a <= b THEN a ELSE b

\* DerivBot.calculateStake with adaptiveStaking off
calculateStake == Max2(minStake, Min2(baseStake, maxStake))

\* Utils.validateStake(stake) with its default limits
validateStake(stake) == stake >= 35 /\ stake <= 100 * 100

\* a risk check that does not look at the emergency stop
checkRiskManagementNoStop(b) ==
    /\ b.consecutiveLosses < maxConsecutiveLosses
    /\ b.dailyLoss < maxDailyLoss

\* a risk check that does not look at the run of losses
checkRiskManagementNoRun(b) ==
    /\ ~b.emergencyStop
    /\ b.dailyLoss < maxDailyLoss

\* DerivBot.checkRiskManagement
checkRiskManagement(b) ==
    /\ ~b.emergencyStop
    /\ b.consecutiveLosses < maxConsecutiveLosses
    /\ b.dailyLoss < maxDailyLoss

\* DerivBot.simulateTrade: the wager settles on the spot against the last tick
simulateTrade(b, ls, prediction, ticks) ==
    LET actualDigit == ticks[Len(ticks)]
        result == IF isEven(actualDigit) = (prediction.finalPrediction = "EVEN")
                  THEN "win" ELSE "loss"
        trade == [contractId |-> <<"SIM", b.nSim + 1>>,
                  prediction |-> prediction.finalPrediction,
                  result |-> result, simulated |-> TRUE]
    IN  [bot |-> [b EXCEPT !.trades = Append(@, trade),
                           !.nSim = @ + 1,
                           !.consecutiveLosses = IF result = "loss" THEN @ + 1 ELSE 0],
         localStorage |-> saveTrade(ls, trade)]

\* DerivBot.executeTrade; cooledDown says whether cooldownPeriod has passed
\* since lastTradeTime, which is 0 until the first buy request
executeTrade(b, cfg, ls, prediction, ticks, cooledDown) ==
    LET same == [bot |-> b, config |-> cfg, localStorage |-> ls]
    IN  IF ~b.isConnected \/ ~wsOpen(b) THEN same
        ELSE IF ~checkRiskManagement(b)
        THEN (IF b.emergencyStop THEN same ELSE [same EXCEPT !.config.autoTrade = FALSE])
        ELSE IF b.lastTradeTime # 0 /\ ~cooledDown THEN same
        ELSE IF ~validateStake(calculateStake) THEN same
        ELSE IF cfg.simulationMode
        THEN LET sim == simulateTrade(b, ls, prediction, ticks)
             IN  [bot |-> sim.bot, config |-> cfg, localStorage |-> sim.localStorage]
        ELSE [same EXCEPT
                !.bot.sent = Append(@, IF prediction.finalPrediction = "EVEN"
                                       THEN "DIGITEVEN" ELSE "DIGITODD"),
                !.bot.lastTradeTime = 1]

\* a settlement that also scores the rule-based model on the outcome
handleContractSettlementScored(b, cfg, ls, ticks, id, contract_type, won) ==
    LET result == IF won THEN "win" ELSE "loss"
        trade == [contractId |-> <<"CONTRACT", id>>,
                  prediction |-> IF contract_type = "DIGITEVEN" THEN "EVEN" ELSE "ODD",
                  result |-> result, simulated |-> FALSE]
        learns == "reinforcementLearning" \in cfg.enabled /\ Len(ticks) > 5
        state == stateKey(getState(SliceLast(ticks, 5)))
        newState == stateKey(getState(ticks))
    IN  [bot |-> [b EXCEPT
                    !.trades = Append(@, trade),
                    !.consecutiveLosses = IF result = "loss" THEN @ + 1 ELSE 0,
                    !.dailyLoss = IF result = "loss" THEN @ + calculateStake ELSE @,
                    !.qCalls = IF learns THEN Append(@, trade.contractId) ELSE @],
         localStorage |->
            IF learns
            THEN updateQLearning(saveTrade(updateModelPerformance(ls, "ruleBased", trade.prediction, IF won THEN trade.prediction ELSE "none"), trade), state, trade.prediction, IF won THEN 1 ELSE -1,
                                 newState,
                                 [read1 |-> FALSE, read2 |-> FALSE, write |-> FALSE])
            ELSE saveTrade(updateModelPerformance(ls, "ruleBased", trade.prediction, IF won THEN trade.prediction ELSE "none"), trade),
         learns |-> learns, state |-> state, newState |-> newState]

\* DerivBot.handleContractSettlement on the contract with this id
handleContractSettlement(b, cfg, ls, ticks, id, contract_type, won) ==
    LET result == IF won THEN "win" ELSE "loss"
        trade == [contractId |-> <<"CONTRACT", id>>,
                  prediction |-> IF contract_type = "DIGITEVEN" THEN "EVEN" ELSE "ODD",
                  result |-> result, simulated |-> FALSE]
        learns == "reinforcementLearning" \in cfg.enabled /\ Len(ticks) > 5
        state == stateKey(getState(SliceLast(ticks, 5)))
        newState == stateKey(getState(ticks))
    IN  [bot |-> [b EXCEPT
                    !.trades = Append(@, trade),
                    !.consecutiveLosses = IF result = "loss" THEN @ + 1 ELSE 0,
                    !.dailyLoss = IF result = "loss" THEN @ + calculateStake ELSE @,
                    !.qCalls = IF learns THEN Append(@, trade.contractId) ELSE @],
         localStorage |->
            IF learns
            THEN updateQLearning(saveTrade(ls, trade), state, trade.prediction, IF won THEN 1 ELSE -1,
                                 newState,
                                 [read1 |-> FALSE, read2 |-> FALSE, write |-> FALSE])
            ELSE saveTrade(ls, trade),
         learns |-> learns, state |-> state, newState |-> newState]

BotHistories ==
    { <<1, 2, 3, 4, 5, 6, 7, 8, 9, 0, 1, 2, 3, 4, 5, 6, 7, 8, 9>>,
      <<2, 4, 1, 3, 3, 8, 6, 5, 0, 8, 2, 4, 6, 0, 8, 2, 4, 6, 0, 8, 2, 4>> }

TickDigits == {0, 3}

BotConfigs ==
    { [enabled |-> e, weightMethod |-> "performance", ensembleMethod |-> "weighted",
       minConfidence |-> 60, autoTrade |-> TRUE, simulationMode |-> sim] :
        e \in { {"ruleBased"}, {"ruleBased", "reinforcementLearning"} },
        sim \in BOOLEAN }

BotEnv == [throwing |-> {}, rand1 |-> Half, rand2 |-> Half,
           qReadFails |-> FALSE, wReadFails |-> FALSE]

\* The socket is open and the tick stream has filled the buffer
InitBot ==
    /\ tickBuffer \in BotHistories
    /\ localStorage = setItem(InitialStorage, "ticks", tickBuffer, FALSE)
    /\ config \in BotConfigs
    /\ last = Idle
    /\ nFeedback = 0
    /\ nFaults = 0
    /\ bot = ConnectedBot

\* The text updatePredictionDisplay writes: prediction.finalPrediction || '-'
Displayed(b, prediction) ==
    IF IsNone(prediction) THEN b.predictionValue
    ELSE IF prediction[1].finalPrediction = "null" THEN "-"
    ELSE prediction[1].finalPrediction

\* DerivBot.handleTick on a tick with this last digit, the limit-th tick at most
HandleTickUpTo(limit, digit, plan, cooledDown) ==
    /\ last = Idle
    /\ wsOpen(bot)
    /\ bot.nTicks < limit
    /\ \E ticks \in {Append(tickBuffer, digit)} :
       \E saved \in {saveTick(localStorage, digit)} :
       \E prediction \in {IF Len(ticks) >= 20 /\ ~bot.emergencyStop
                          THEN Some(predict(ticks, config, saved, BotEnv, plan).value)
                          ELSE None} :
       \E after \in {IF /\ ~IsNone(prediction)
                        /\ config.autoTrade
                        /\ prediction[1].shouldTrade
                     THEN executeTrade(bot, config, saved, prediction[1], ticks, cooledDown)
                     ELSE [bot |-> bot, config |-> config, localStorage |-> saved]} :
            /\ tickBuffer' = ticks
            /\ bot' = [after.bot EXCEPT !.nTicks = @ + 1,
                                        !.predictionValue = Displayed(bot, prediction),
                                        !.manualTradeDisabled =
                                            IF IsNone(prediction) THEN @
                                            ELSE ~prediction[1].shouldTrade
                                                    \/ bot.emergencyStop]
            /\ config' = after.config
            /\ localStorage' = after.localStorage
            /\ last' = [op |-> "handleTick", prediction |-> prediction]
    /\ UNCHANGED <<nFeedback, nFaults>>

HandleTick(digit, plan, cooledDown) == HandleTickUpTo(MaxTicks, digit, plan, cooledDown)

\* The server accepts the oldest buy request; DerivBot.handleBuyResponse
\* subscribes to the contract's updates
HandleBuyResponse ==
    /\ last = Idle
    /\ wsOpen(bot)
    /\ bot.sent # <<>>
    /\ bot' = [bot EXCEPT
                !.sent = Tail(@),
                !.contracts = Append(@, [contract_type |-> Head(bot.sent),
                                         sold |-> 0, won |-> None])]
    /\ last' = [op |-> "handleBuyResponse", contract_id |-> Len(bot.contracts) + 1]
    /\ UNCHANGED <<tickBuffer, localStorage, config, nFeedback, nFaults>>

\* DerivBot.handleContractUpdate on a proposal_open_contract message; a sold
\* contract keeps the outcome of its first is_sold update
HandleContractUpdate(id, is_sold, won) ==
    /\ last = Idle
    /\ wsOpen(bot)
    /\ id \in 1 .. Len(bot.contracts)
    /\ LET contract == bot.contracts[id]
       IN  IF is_sold
           THEN /\ contract.sold < MaxSoldUpdates
                /\ nFeedback < MaxFeedback
                /\ IsNone(contract.won) \/ contract.won = Some(won)
                /\ LET marked == [bot EXCEPT !.contracts[id] =
                                    [contract EXCEPT !.sold = @ + 1, !.won = Some(won)]]
                       after == handleContractSettlement(marked, config, localStorage,
                                    tickBuffer, id, contract.contract_type, won)
                   IN  /\ bot' = after.bot
                       /\ localStorage' = after.localStorage
                       /\ nFeedback' = IF after.learns THEN nFeedback + 1 ELSE nFeedback
                       /\ last' = [op |-> "handleContractUpdate", contract_id |-> id,
                                   is_sold |-> TRUE, learns |-> after.learns,
                                   state |-> after.state, newState |-> after.newState]
           ELSE /\ contract.sold = 0
                /\ last' = [op |-> "handleContractUpdate", contract_id |-> id,
                            is_sold |-> FALSE, learns |-> FALSE,
                            state |-> <<>>, newState |-> <<>>]
                /\ UNCHANGED <<bot, localStorage, nFeedback>>
    /\ UNCHANGED <<tickBuffer, config, nFaults>>

NextBot ==
    \/ \E digit \in TickDigits, plan \in DrawPlans, cooledDown \in BOOLEAN :
            HandleTick(digit, plan, cooledDown)
    \/ HandleBuyResponse
    \/ \E id \in 1 .. MaxTicks, is_sold \in BOOLEAN, won \in BOOLEAN :
            HandleContractUpdate(id, is_sold, won)
    \/ Return

SpecBot == InitBot /\ [][NextBot]_vars

\* Number of updateQLearning calls made for a contract
QCallsFor(contractId) ==
    Cardinality({i \in 1 .. Len(bot.qCalls) : bot.qCalls[i] = contractId})

\* C9: while the learner is enabled, every settled wager has had updateQLearning
\* invoked exactly once: not zero times, simulated trades included, and not more
\* than once when several is_sold updates arrive for the contract.
C9_FeedbackOncePerSettledWager ==
    "reinforcementLearning" \in config.enabled =>
        \A i \in 1 .. Len(bot.trades) : QCallsFor(bot.trades[i].contractId) = 1

----------------------------------------------------------------------------
(* calculateWeights over the accuracy records the store can hold *)

ScoredModels == {"pattern", "ruleBased"}

WeightContributions(m) ==
    {None} \cup
    CASE m = "pattern" ->
            { Some([model |-> m, prediction |-> "null", confidence |-> Zero]),
              Some([model |-> m, prediction |-> "EVEN", confidence |-> Half]) }
      [] m = "ruleBased" ->
            { Some([model |-> m, prediction |-> "ODD", confidence |-> <<13, 20>>]) }
      [] m = "reinforcementLearning" ->
            { Some([model |-> m, prediction |-> "EVEN", confidence |-> Zero]),
              Some([model |-> m, prediction |-> "EVEN", confidence |-> <<-1, 100>>]),
              Some([model |-> m, prediction |-> "ODD", confidence |-> <<1, 100>>]) }
      [] OTHER ->
            { Some([model |-> m, prediction |-> "EVEN", confidence |-> Half]) }

\* Non-empty lists; "custom" is a model the store keeps no record of
WeightLists ==
    { a \o b \o c \o d :
        a \in WeightContributions("pattern"), b \in WeightContributions("ruleBased"),
        c \in WeightContributions("reinforcementLearning"),
        d \in WeightContributions("custom") } \ {<<>>}

WeightConfigs ==
    { [enabled |-> Models, weightMethod |-> w, ensembleMethod |-> "weighted",
       minConfidence |-> 60] :
        w \in {"equal", "performance", "confidence", "unknown"} }

InitWeights ==
    /\ tickBuffer = <<>>
    /\ localStorage = InitialStorage
    /\ config \in WeightConfigs
    /\ last = Idle
    /\ nFeedback = 0
    /\ nFaults = 0
    /\ bot = NewBot

\* Storage.updateModelPerformance(modelName, prediction, actual)
UpdateModelPerformance(modelName, prediction, actual) ==
    /\ last = Idle
    /\ getModels(localStorage, FALSE)[modelName].predictions < MaxPredictions
    /\ localStorage' = updateModelPerformance(localStorage, modelName, prediction, actual)
    /\ last' = [op |-> "updateModelPerformance", model |-> modelName]
    /\ UNCHANGED <<tickBuffer, config, nFeedback, nFaults, bot>>

\* Analysis.calculateWeights(predictions, CONFIG.strategy.weightMethod)
CalculateWeights(predictions) ==
    /\ last = Idle
    /\ last' = [op |-> "calculateWeights", predictions |-> predictions,
                out |-> calculateWeights(predictions, config.weightMethod,
                                         getModels(localStorage, FALSE))]
    /\ UNCHANGED <<tickBuffer, localStorage, config, nFeedback, nFaults, bot>>

NextWeights ==
    \/ \E m \in ScoredModels, actual \in Actions :
            UpdateModelPerformance(m, "EVEN", actual)
    \/ \E predictions \in WeightLists : CalculateWeights(predictions)
    \/ Return

SpecWeights == InitWeights /\ [][NextWeights]_vars

IsWeigh == last.op = "calculateWeights"

\* C11: for every method name and every non-empty list calculateWeights returns
\* one weight per prediction, the weights sum to 1, and under equal every weight
\* is 1/n.
C11_WeightsSumToOne ==
    IsWeigh =>
        /\ DOMAIN last.out = 1 .. Len(last.predictions)
        /\ SumSeq(last.out, 1) = One
        /\ (config.weightMethod = "equal") =>
                \A i \in DOMAIN last.out : last.out[i] = Rat(1, Len(last.predictions))

\* C11 witness: performance weighting over two different non-zero accuracies
C11_Witness ==
    /\ IsWeigh
    /\ config.weightMethod = "performance"
    /\ Len(last.predictions) >= 2
    /\ RLess(Zero, last.out[1])
    /\ RLess(last.out[1], last.out[2])

\* What the description of the methods gives for position i
StoredAccuracy(i) ==
    LET models == getModels(localStorage, FALSE)
        m == last.predictions[i].model
    IN  IF m \in DOMAIN models THEN RDiv(models[m].accuracy, FromInt(100)) ELSE Half
TotalAccuracy ==
    SumSeq([i \in 1 .. Len(last.predictions) |-> StoredAccuracy(i)], 1)
TotalConfidence ==
    SumSeq([i \in 1 .. Len(last.predictions) |-> last.predictions[i].confidence], 1)
DescribedWeight(i) ==
    LET n == Len(last.predictions)
    IN  CASE config.weightMethod = "performance" ->
                IF TotalAccuracy = Zero THEN Rat(1, n)
                ELSE RDiv(StoredAccuracy(i), TotalAccuracy)
          [] config.weightMethod = "confidence" ->
                IF TotalConfidence = Zero THEN Rat(1, n)
                ELSE RDiv(last.predictions[i].confidence, TotalConfidence)
          [] OTHER -> Rat(1, n)

\* C12: performance weights are accuracy/100 (0.5 without a record) over their
\* total, confidence weights are confidence over the total confidence, both are
\* 1/n when the total is 0, and an unrecognised method weighs as equal.
C12_WeightsAsDescribed ==
    IsWeigh => \A i \in 1 .. Len(last.predictions) : last.out[i] = DescribedWeight(i)

----------------------------------------------------------------------------
(* The stages of fuseDecisions, under SpecFusion *)

WeightsIn ==
    calculateWeights(last.predictions, config.weightMethod, getModels(localStorage, FALSE))

\* Sum of confidence * weight over the predictions of one parity
VotesFor(parity) ==
    SumSeq([i \in 1 .. Len(last.predictions) |->
                IF last.predictions[i].prediction = parity
                THEN RMul(last.predictions[i].confidence, WeightsIn[i]) ELSE Zero], 1)

Threshold == Rat(config.minConfidence, 100)
RanMonteCarlo == "runMonteCarloSimulation" \in {last.out.calls[i] : i \in DOMAIN last.out.calls}

\* C13: evenScore and oddScore are the sums of confidence * weight over the EVEN
\* and the ODD predictions, none adds to neither; confidence is max/sum when the
\* sum is positive and 0 otherwise; without the Monte Carlo gate shouldTrade is
\* confidence >= minConfidence/100.
C13_ScoresAndConfidence ==
    (IsFuse /\ Len(last.predictions) > 0) =>
        LET even == VotesFor("EVEN")
            odd == VotesFor("ODD")
            sum == RAdd(even, odd)
        IN  /\ ~IsNone(last.out.scores) =>
                    last.out.scores[1] = [evenScore |-> even, oddScore |-> odd]
            /\ last.out.confidence =
                    IF RLess(Zero, sum) THEN RDiv(RMax(even, odd), sum) ELSE Zero
            /\ ~RanMonteCarlo =>
                    (last.out.shouldTrade <=> RLeq(Threshold, last.out.confidence))

\* C13 witness: a list with votes on both sides and a none prediction
C13_Witness ==
    /\ IsFuse
    /\ \E i \in 1 .. Len(last.predictions) : last.predictions[i].prediction = "null"
    /\ RLess(Zero, VotesFor("EVEN"))
    /\ RLess(VotesFor("EVEN"), VotesFor("ODD"))
    /\ ~IsNone(last.out.scores)
    /\ last.out.shouldTrade

\* C14: the simulation runs exactly when the threshold comparison is true and
\* ensembleMethod is 'weighted'; under every other ensembleMethod shouldTrade is
\* the threshold comparison and the Decision has scores and no simulation.
C14_GateOnlyWhenWeighted ==
    (IsFuse /\ Len(last.predictions) > 0) =>
        /\ RanMonteCarlo <=>
                (RLeq(Threshold, last.out.confidence) /\ config.ensembleMethod = "weighted")
        /\ (config.ensembleMethod # "weighted") =>
                /\ last.out.shouldTrade <=> RLeq(Threshold, last.out.confidence)
                /\ ~IsNone(last.out.scores)
                /\ IsNone(last.out.simulation)

\* C14 witness: a confident pass under an ensembleMethod other than 'weighted'
C14_Witness ==
    /\ IsFuse
    /\ config.ensembleMethod \in {"stacking", "unknown"}
    /\ last.out.shouldTrade
    /\ ~RanMonteCarlo

\* The Decision of the same pass with the gate inactive
Ungated ==
    fuseDecisions(last.predictions, [config EXCEPT !.ensembleMethod = "voting"],
                  getModels(localStorage, FALSE), last.plan)

\* C15: when the gate runs and winProbability < 0.5 the Decision has shouldTrade
\* false, the Monte Carlo reason, the pre-gate finalPrediction and confidence and
\* the simulation result; when winProbability >= 0.5 it keeps shouldTrade true
\* and is the Decision of the inactive gate.
C15_GateOutcome ==
    (IsFuse /\ Len(last.predictions) > 0 /\ RanMonteCarlo) =>
        LET sim == runMonteCarloSimulation(last.predictions, MCIterations, last.plan)
        IN  IF RLess(sim.winProbability, Half)
            THEN /\ ~last.out.shouldTrade
                 /\ last.out.reason = "Monte Carlo simulation suggests unfavorable odds"
                 /\ last.out.finalPrediction = Ungated.finalPrediction
                 /\ last.out.confidence = Ungated.confidence
                 /\ last.out.simulation = Some(sim)
            ELSE /\ last.out.shouldTrade
                 /\ [last.out EXCEPT !.calls = <<>>] = [Ungated EXCEPT !.calls = <<>>]

\* C15 witness: the simulation won 49 of its 100 iterations and vetoed the trade
C15_Witness ==
    /\ IsFuse
    /\ RanMonteCarlo
    /\ ~IsNone(last.out.simulation)
    /\ last.out.simulation[1].wins = 49
    /\ ~last.out.shouldTrade

IsSimulate == last.op = "runMonteCarloSimulation"

\* C16: with iterations = 0 runMonteCarloSimulation returns winProbability 0, and
\* the gate's comparison on that result rejects the trade.
C16_ZeroIterationsDefined ==
    (IsSimulate /\ last.iterations = 0) =>
        /\ last.out.winProbability = Zero
        /\ last.rejects

\* The sum of confidence / n over the whole list
ConfidenceShare(predictions) ==
    SumSeq([i \in 1 .. Len(predictions) |->
                RDiv(predictions[i].confidence, FromInt(Len(predictions)))],
           1)

\* The iterations whose first draw is at most that sum
Reaching(predictions, iterations, plan) ==
    Cardinality({i \in 1 .. iterations :
                    RLeq(DrawOf(plan, i)[1], ConfidenceShare(predictions))})

\* C26: with the draws arbitrary values in [0,1), each iteration of
\* runMonteCarloSimulation records at most one win, and an iteration whose first
\* draw is greater than the sum of confidence / n over the whole list records no
\* outcome; hence 0 <= wins <= iterations, and winProbability lies in [0,1] for
\* every iterations >= 1.
C26_SimulationBounds ==
    IsSimulate =>
        /\ last.out.wins >= 0
        /\ last.out.wins <= last.iterations
        /\ last.out.wins <= Reaching(last.predictions, last.iterations, last.plan)
        /\ last.iterations >= 1 => InUnitInterval(last.out.winProbability)

\* The same bounds for lists without a negative confidence
C26_NonNegativeLists ==
    (IsSimulate /\ \A i \in 1 .. Len(last.predictions) :
                        RLeq(Zero, last.predictions[i].confidence)) =>
        /\ last.out.wins >= 0
        /\ last.out.wins <= last.iterations
        /\ last.out.wins <= Reaching(last.predictions, last.iterations, last.plan)
        /\ last.iterations >= 1 => InUnitInterval(last.out.winProbability)

\* Iterations of a list without a negative confidence whose first draw passed
\* the whole list and recorded nothing
C26_NoOutcomeReached ==
    /\ IsSimulate
    /\ last.iterations = 100
    /\ \A i \in 1 .. Len(last.predictions) : RLeq(Zero, last.predictions[i].confidence)
    /\ Reaching(last.predictions, last.iterations, last.plan) = 50
    /\ last.out.wins = 50

----------------------------------------------------------------------------
(* The models on short histories, under Spec *)

\* The history length below which a model gives no opinion
MinimumTicks(m) ==
    CASE m = "statistical" -> 10
      [] m = "ruleBased" -> 5
      [] OTHER -> 20

\* C17: below its minimum history (10 statistical, 20 pattern, 5 ruleBased,
\* 20 reinforcementLearning, the empty history included) a model returns
\* prediction none with confidence 0 as a normal result; from the minimum on
\* ruleBased and statistical return EVEN or ODD.
C17_ShortHistoryGivesNone ==
    (IsRunModel /\ last.model \notin last.env.throwing) =>
        /\ Returned1(last.out)
        /\ Len(tickBuffer) < MinimumTicks(last.model) =>
                /\ last.out.value[1].prediction = "null"
                /\ last.out.value[1].confidence = Zero
        /\ (Len(tickBuffer) >= MinimumTicks(last.model)
                /\ last.model \in {"ruleBased", "statistical"}) =>
                last.out.value[1].prediction \in {"EVEN", "ODD"}

\* C17 witness: ruleBased answers on exactly 5 ticks, where the others do not
C17_Witness ==
    /\ IsRunModel
    /\ last.model = "ruleBased"
    /\ Len(tickBuffer) = 5
    /\ Returned1(last.out)
    /\ last.out.value[1].prediction \in {"EVEN", "ODD"}

----------------------------------------------------------------------------
(* The learner's choice between exploring and exploiting, under Spec *)

\* The row of the current state in the table the run read, fresh if it has none
RowRead == WithRow(getQTable(localStorage, last.env.qReadFails), CurrentKey)[CurrentKey]
Explores == RLess(last.env.rand1, explorationRate)

\* C23: when the learner exploits it predicts the parity with the larger value in
\* the current state's row, and EVEN when the two values are equal, the fresh row
\* {0,0} included; when it explores it returns one of the two parities, whatever
\* the values.
C23_ExploitPicksLargerValue ==
    LearnerRan =>
        IF Explores
        THEN last.out.value[1].prediction \in Actions
        ELSE last.out.value[1].prediction =
                (IF RLess(RowRead.EVEN, RowRead.ODD) THEN "ODD" ELSE "EVEN")

\* The learner has exploited a fresh row and answered EVEN
C23_Witness ==
    /\ LearnerRan
    /\ ~Explores
    /\ CurrentKey \notin DOMAIN PersistedQTable(localStorage)
    /\ last.out.value[1].prediction = "EVEN"

\* The learner has exploited a row whose ODD value is the larger one
C23_LearnedWitness ==
    /\ LearnerRan
    /\ ~Explores
    /\ RLess(RowRead.EVEN, RowRead.ODD)
    /\ last.out.value[1].prediction = "ODD"

\* The learner has explored and returned the parity with the smaller value
C23_ExploreWitness ==
    /\ LearnerRan
    /\ Explores
    /\ RLess(RowRead.ODD, RowRead.EVEN)
    /\ last.out.value[1].prediction = "ODD"

----------------------------------------------------------------------------
(* A long run of ticks: what the bot and the store keep of it *)

\* One tick more than the store retains
LongRun == maxHistorySize + 1

\* Every model switched off, so that a pass over the history fuses nothing
QuietConfig ==
    [enabled |-> {}, weightMethod |-> "performance", ensembleMethod |-> "weighted",
     minConfidence |-> 60, autoTrade |-> TRUE, simulationMode |-> FALSE]

InitHistory ==
    /\ tickBuffer = <<>>
    /\ localStorage = InitialStorage
    /\ config = QuietConfig
    /\ last = Idle
    /\ nFeedback = 0
    /\ nFaults = 0
    /\ bot = ConnectedBot

\* Storage.saveTrade(trade)
SaveTrade(result) ==
    /\ last = Idle
    /\ Len(getTrades(localStorage)) < MaxTrades
    /\ localStorage' = saveTrade(localStorage,
                                 [contractId |-> <<"CONTRACT", Len(getTrades(localStorage)) + 1>>,
                                  prediction |-> "EVEN", result |-> result,
                                  simulated |-> FALSE])
    /\ last' = [op |-> "saveTrade"]
    /\ UNCHANGED <<tickBuffer, config, nFeedback, nFaults, bot>>

NextHistory ==
    \/ \E plan \in DrawPlans : HandleTickUpTo(LongRun, 7, plan, TRUE)
    \/ \E result \in {"win", "loss"} : SaveTrade(result)
    \/ Return

SpecHistory == InitHistory /\ [][NextHistory]_vars

\* C18: the history handed to Analysis.predict never exceeds maxHistorySize
\* ticks, and the stored tick and trade arrays never exceed it either.
C18_HistoriesBounded ==
    /\ (last.op = "handleTick" /\ ~IsNone(last.prediction)) =>
            Len(tickBuffer) <= maxHistorySize
    /\ Len(getTicks(localStorage)) <= maxHistorySize
    /\ Len(getTrades(localStorage)) <= maxHistorySize

----------------------------------------------------------------------------
(* ruleBasedModel over histories and configured streak thresholds *)

RuleDigits == {0, 3, 4, 7}

\* Every 5-tick history over RuleDigits, and longer ones whose streak reaches
\* or passes the 10 ticks the model looks at
RuleHistories ==
    [1 .. 5 -> RuleDigits] \cup
    { <<3, 4, 4, 4, 4, 4, 4, 4, 4, 4, 4>>,
      <<4, 4, 4, 4, 4, 4, 4, 4, 4, 4, 4, 4>>,
      <<7, 3, 7, 3, 7, 3, 7, 3, 7, 3, 7, 3, 7>>,
      <<0, 7, 4, 3, 3, 4, 7, 7, 7, 7, 7, 7>> }

\* Values CONFIG.models.ruleBased.streakThreshold can be set to
StreakThresholds == {2, 3, 4}

RuleConfigs == { [DefaultConfig EXCEPT !.enabled = {"ruleBased"}] @@ [streakThreshold |-> t] :
                    t \in StreakThresholds }

InitRules ==
    /\ tickBuffer \in RuleHistories
    /\ localStorage = InitialStorage
    /\ config \in RuleConfigs
    /\ last = Idle
    /\ nFeedback = 0
    /\ nFaults = 0
    /\ bot = NewBot

\* Analysis.ruleBasedModel(ticks)
RunRules ==
    /\ last = Idle
    /\ last' = [op |-> "ruleBasedModel",
                out |-> ruleBasedModelWith(tickBuffer, config.streakThreshold)]
    /\ UNCHANGED <<tickBuffer, localStorage, config, nFeedback, nFaults, bot>>

NextRules == RunRules \/ Return

SpecRules == InitRules /\ [][NextRules]_vars

IsRules == last.op = "ruleBasedModel"
Fired(rule) == \E i \in 1 .. Len(last.out.rulesApplied) : last.out.rulesApplied[i] = rule

\* C19: the streak-reversal rule and the short-streak continuation rule never
\* both fire in one invocation, whatever the history and the streakThreshold.
C19_ReversalAndContinuationExclusive ==
    IsRules => ~(Fired("Streak reversal") /\ Fired("Short streak continuation"))

\* The streak ending at the last tick, counted within the last 10 ticks
Recent == SliceLast(tickBuffer, 10)
LastDigit == tickBuffer[Len(tickBuffer)]
StreakLength ==
    CHOOSE k \in 1 .. Len(Recent) :
        /\ \A j \in 0 .. k - 1 : isEven(Recent[Len(Recent) - j]) = isEven(LastDigit)
        /\ k = Len(Recent) \/ isEven(Recent[Len(Recent) - k]) # isEven(LastDigit)

\* The outcome of the ordered rule chain
ReversalFires == StreakLength >= config.streakThreshold
ContinuationFires == StreakLength = 2
BeforeFibonacci ==
    IF ContinuationFires THEN [prediction |-> Parity(LastDigit), confidence |-> <<3, 5>>]
    ELSE IF ReversalFires
    THEN [prediction |-> Opposite(Parity(LastDigit)), confidence |-> reversalConfidence]
    ELSE [prediction |-> "null", confidence |-> Half]
FibonacciFires ==
    /\ LastDigit \in {0, 1, 2, 3, 5, 8}
    /\ (BeforeFibonacci.prediction = "null" \/ RLess(BeforeFibonacci.confidence, <<13, 20>>))
DefaultFires == BeforeFibonacci.prediction = "null" /\ ~FibonacciFires
ChainOutcome ==
    [model |-> "ruleBased",
     prediction |-> IF FibonacciFires \/ DefaultFires THEN Opposite(Parity(LastDigit))
                    ELSE BeforeFibonacci.prediction,
     confidence |-> IF FibonacciFires THEN <<13, 20>>
                    ELSE IF DefaultFires THEN <<13, 25>>
                    ELSE BeforeFibonacci.confidence,
     rulesApplied |->
        (IF ReversalFires THEN <<"Streak reversal">> ELSE <<>>) \o
        (IF ContinuationFires THEN <<"Short streak continuation">> ELSE <<>>) \o
        (IF FibonacciFires THEN <<"Fibonacci number detected">> ELSE <<>>) \o
        (IF DefaultFires THEN <<"Default alternation">> ELSE <<>>)]

\* C20: on a history of 5 ticks or more ruleBasedModel returns the outcome of the
\* ordered chain (reversal at reversalConfidence, continuation at 0.6, Fibonacci
\* at 0.65 when nothing stronger stands, default at 0.52), and rulesApplied lists
\* the rules that fired, in order, and is never empty.
C20_RuleChain ==
    (IsRules /\ Len(tickBuffer) >= 5) =>
        /\ last.out = ChainOutcome
        /\ last.out.rulesApplied # <<>>

\* C20 witness: a streak of two ending on a Fibonacci digit, where the third
\* rule overwrites the second
C20_Witness ==
    /\ IsRules
    /\ StreakLength = 2
    /\ last.out.rulesApplied = <<"Short streak continuation", "Fibonacci number detected">>
    /\ last.out.prediction = Opposite(Parity(LastDigit))
    /\ last.out.confidence = <<13, 20>>

----------------------------------------------------------------------------
(* The pattern matcher over tick histories, queries and pairs of patterns *)

PatternDigits == {2, 3, 4}

\* Histories of 19, 20 and 21 ticks: a fixed run followed by four free digits
PatternBlocks ==
    { <<2, 4, 2, 3, 2, 4, 2, 4, 3, 3, 2, 2, 4, 4, 2>>,
      <<2, 4, 2, 3, 2, 4, 2, 4, 3, 3, 2, 2, 4, 4, 2, 4>>,
      <<3, 3, 3, 2, 3, 3, 3, 4, 2, 3, 4, 3, 3, 3, 3, 3, 3>> }

PatternHistories ==
    { block \o tail : block \in PatternBlocks, tail \in [1 .. 4 -> PatternDigits] }

\* Patterns of 0 to 3 digits, compared pairwise
SimilarityPatterns == UNION { [1 .. n -> {2, 3}] : n \in 0 .. 3 }

\* Queries of 0, 1 and 4 digits, and the history's own last 3 and last 4 digits
Queries(ticks) ==
    [1 .. 0 -> {2}] \cup [1 .. 1 -> {2, 3}] \cup [1 .. 4 -> {2, 4}]
        \cup {SliceLast(ticks, 3), SliceLast(ticks, 4)}

InitPattern ==
    /\ tickBuffer \in PatternHistories
    /\ localStorage = InitialStorage
    /\ config = DefaultConfig
    /\ last = Idle
    /\ nFeedback = 0
    /\ nFaults = 0
    /\ bot = NewBot

\* Analysis.calculatePatternSimilarity on two patterns
Similarity(pattern1, pattern2) ==
    /\ last = Idle
    /\ last' = [op |-> "calculatePatternSimilarity",
                pattern1 |-> pattern1, pattern2 |-> pattern2,
                out |-> calculatePatternSimilarity(pattern1, pattern2),
                swapped |-> calculatePatternSimilarity(pattern2, pattern1)]
    /\ UNCHANGED <<tickBuffer, localStorage, config, nFeedback, nFaults, bot>>

\* Analysis.findSimilarPatterns on the history and a query
FindSimilar(targetPattern) ==
    /\ last = Idle
    /\ last' = [op |-> "findSimilarPatterns", targetPattern |-> targetPattern,
                out |-> findSimilarPatterns(tickBuffer, targetPattern)]
    /\ UNCHANGED <<tickBuffer, localStorage, config, nFeedback, nFaults, bot>>

\* Analysis.patternModel on the history
RunPattern ==
    /\ last = Idle
    /\ last' = [op |-> "patternModel", out |-> patternModel(tickBuffer)]
    /\ UNCHANGED <<tickBuffer, localStorage, config, nFeedback, nFaults, bot>>

NextPattern ==
    \/ \E pattern1 \in SimilarityPatterns, pattern2 \in SimilarityPatterns :
            Similarity(pattern1, pattern2)
    \/ \E targetPattern \in Queries(tickBuffer) : FindSimilar(targetPattern)
    \/ RunPattern
    \/ Return

SpecPattern == InitPattern /\ [][NextPattern]_vars

IsPattern == last # Idle /\ last.op = "patternModel"
IsSimilarity == last # Idle /\ last.op = "calculatePatternSimilarity"
IsFindSimilar == last # Idle /\ last.op = "findSimilarPatterns"

\* The digits that follow the windows matching the history's last minPatternLength digits
Followers ==
    LET matches == findSimilarPatterns(tickBuffer, SliceLast(tickBuffer, minPatternLength))
    IN  [k \in 1 .. Len(matches) |-> matches[k].following[1]]

EvenFollowers == Cardinality({k \in 1 .. Len(Followers) : Followers[k] % 2 = 0})
OddFollowers == Len(Followers) - EvenFollowers

\* The last 10 ticks are all even or all odd
StreakOfTen ==
    \/ \A i \in Len(tickBuffer) - 9 .. Len(tickBuffer) : tickBuffer[i] % 2 = 0
    \/ \A i \in Len(tickBuffer) - 9 .. Len(tickBuffer) : tickBuffer[i] % 2 = 1

MajorityFraction ==
    Rat(IF EvenFollowers >= OddFollowers THEN EvenFollowers ELSE OddFollowers,
        Len(Followers))

\* C21: on a history of at least 20 ticks patternModel returns none with confidence
\* 0 when no window matches; otherwise it predicts the majority parity of the digits
\* following the matched windows, ODD on an exact tie, with the majority fraction as
\* confidence, multiplied by 0.7 exactly when the last 10 ticks are all even or all odd.
C21_PatternOutcome ==
    (IsPattern /\ Len(tickBuffer) >= 20) =>
        IF Len(Followers) = 0
        THEN last.out.prediction = "null" /\ last.out.confidence = Zero
        ELSE /\ last.out.prediction =
                    (IF EvenFollowers > OddFollowers THEN "EVEN" ELSE "ODD")
             /\ last.out.confidence =
                    (IF StreakOfTen THEN RMul(MajorityFraction, <<7, 10>>)
                     ELSE MajorityFraction)

\* patternModel has run on a history ending in a streak of ten with matched windows
C21_Witness ==
    /\ IsPattern
    /\ Len(tickBuffer) >= 20
    /\ Len(Followers) > 0
    /\ StreakOfTen
    /\ last.out.confidence = RMul(MajorityFraction, <<7, 10>>)

\* patternModel has run on a history whose matched windows split evenly
C21_TieWitness ==
    /\ IsPattern
    /\ Len(tickBuffer) >= 20
    /\ Len(Followers) > 0
    /\ EvenFollowers = OddFollowers
    /\ last.out.prediction = "ODD"

\* The number of positions at which two patterns of equal length agree
Agreeing(pattern1, pattern2) ==
    Cardinality({i \in 1 .. Len(pattern1) : pattern1[i] = pattern2[i]})

\* C22: calculatePatternSimilarity returns 0 for sequences of different length; for
\* two sequences of equal length it returns the fraction of position-wise equal
\* digits, which is 1 if and only if the sequences are element-wise equal; the result
\* is symmetric in its arguments and lies in [0,1].
C22_SimilarityContract ==
    IsSimilarity =>
        /\ last.out = last.swapped
        /\ ~IsNaN(last.out) /\ InUnitInterval(last.out)
        /\ IF Len(last.pattern1) # Len(last.pattern2)
           THEN last.out = Zero
           ELSE /\ (last.out = One) <=> (last.pattern1 = last.pattern2)
                /\ Len(last.pattern1) > 0 =>
                      last.out = Rat(Agreeing(last.pattern1, last.pattern2),
                                     Len(last.pattern1))

\* The same contract restricted to patterns that are not both empty
C22_NonEmptyPatterns ==
    (IsSimilarity /\ Len(last.pattern1) + Len(last.pattern2) > 0) =>
        /\ last.out = last.swapped
        /\ InUnitInterval(last.out)
        /\ IF Len(last.pattern1) # Len(last.pattern2)
           THEN last.out = Zero
           ELSE /\ (last.out = One) <=> (last.pattern1 = last.pattern2)
                /\ last.out = Rat(Agreeing(last.pattern1, last.pattern2),
                                  Len(last.pattern1))

\* C25: for a history of n ticks and a query of length L, findSimilarPatterns
\* examines exactly the windows starting at i = 0 .. n-L-2, reports a window as a
\* match iff its similarity is >= similarityThreshold, takes as its following value
\* the digit at index i+L, never indexes outside the history, and never uses the
\* most recent tick as a following value.
C25_WindowsExamined ==
    IsFindSimilar =>
        LET n == Len(tickBuffer)
            L == Len(last.targetPattern)
            out == last.out
            Matching(i) ==
                Geq(calculatePatternSimilarity(last.targetPattern,
                        SubSeq(tickBuffer, i + 1, i + L)),
                    similarityThreshold)
        IN  /\ {out[k].index : k \in 1 .. Len(out)} = {i \in 0 .. n - L - 2 : Matching(i)}
            /\ \A k, j \in 1 .. Len(out) : k < j => out[k].index < out[j].index
            /\ \A k \in 1 .. Len(out) :
                /\ out[k].index + L \in 0 .. n - 2
                /\ out[k].following = Some(tickBuffer[out[k].index + L + 1])

\* findSimilarPatterns has matched the window that ends on the last but one tick,
\* through a window that agrees with the query only in part
C25_Witness ==
    /\ IsFindSimilar
    /\ \E k \in 1 .. Len(last.out) :
            last.out[k].index = Len(tickBuffer) - Len(last.targetPattern) - 2
    /\ \E k \in 1 .. Len(last.out) : last.out[k].similarity # One

----------------------------------------------------------------------------
(* A decision on 25 ticks of strictly alternating parity, two models enabled *)

\* The digit of parity p (0 even, 1 odd) in a palette of small or large digits
PaletteDigit(palette, p) == IF palette = "small" THEN p ELSE 4 + 3 * p

\* The parity of position i when position 1 has parity first
ParityAt(first, i) == (first + i - 1) % 2

\* 22 ticks from a palette, then three ticks free among the digits of their parity
AlternatingHistories ==
    { [i \in 1 .. 25 |->
            IF i <= 22
            THEN PaletteDigit(palette, ParityAt(first, i))
            ELSE 2 * tail[i - 22] + ParityAt(first, i)] :
        palette \in {"small", "large"}, first \in {0, 1}, tail \in [1 .. 3 -> 0 .. 4] }

ScenarioConfigs ==
    { [enabled |-> {"statistical", "ruleBased"}, weightMethod |-> "equal",
       ensembleMethod |-> method, minConfidence |-> 50] :
        method \in {"weighted", "voting"} }

ScenarioEnv == [throwing |-> {}, rand1 |-> Half, rand2 |-> Half,
                qReadFails |-> FALSE, wReadFails |-> FALSE]

InitScenario ==
    /\ tickBuffer \in AlternatingHistories
    /\ localStorage = InitialStorage
    /\ config \in ScenarioConfigs
    /\ last = Idle
    /\ nFeedback = 0
    /\ nFaults = 0
    /\ bot = NewBot

NextScenario ==
    \/ \E plan \in DrawPlans : Predict(ScenarioEnv, plan)
    \/ Return

SpecScenario == InitScenario /\ [][NextScenario]_vars

\* The parity opposite to the last tick's
AgainstLastTick == Opposite(Parity(tickBuffer[Len(tickBuffer)]))

\* C24: on a 25-tick history of strictly alternating parity, with only statistical
\* and ruleBased enabled, equal weighting and minConfidence 50, both models predict
\* the parity opposite to the last tick, finalPrediction is that parity, the fused
\* confidence is 1 and shouldTrade is true before any Monte Carlo gate.
C24_AlternatingScenario ==
    IsPredict =>
        /\ ~last.out.threw
        /\ LET out == last.out.value
           IN  /\ Len(out.modelBreakdown) = 2
               /\ \A i \in 1 .. 2 : out.modelBreakdown[i].prediction = AgainstLastTick
               /\ out.finalPrediction = AgainstLastTick
               /\ out.confidence = One
               /\ RLeq(Rat(config.minConfidence, 100), out.confidence)
               /\ out.shouldTrade \/ ~IsNone(out.simulation)

\* The decision has been taken after an even last tick outside the Fibonacci
\* digits, and it says to trade
C24_Witness ==
    /\ IsPredict
    /\ tickBuffer[Len(tickBuffer)] = 6
    /\ last.out.value.finalPrediction = "ODD"
    /\ last.out.value.shouldTrade

\* The decision has been taken and the Monte Carlo gate has withdrawn it
C24_GateWitness ==
    /\ IsPredict
    /\ ~IsNone(last.out.value.simulation)
    /\ ~last.out.value.shouldTrade
    /\ last.out.value.confidence = One

----------------------------------------------------------------------------
(* The connection life cycle: the user's clicks, the socket's events, the   *)
(* timers and the window's network events, each handled to completion       *)

\* The state a handler leaves behind
World == [bot |-> bot, config |-> config]

Handled(w) ==
    /\ last = Idle
    /\ w.bot.reconnectAttempts <= MaxReconnects
    /\ bot' = w.bot
    /\ config' = w.config
    /\ UNCHANGED <<tickBuffer, localStorage, last, nFeedback, nFaults>>

\* this.ws after the browser has moved it to readyState
Moved(readyState, closeFired) ==
    [bot EXCEPT !.ws = Some([@[1] EXCEPT !.readyState = readyState,
                                        !.closeFired = closeFired])]

CloseCodes == {1000, 1001, 1006}
ErrorCodes == {"InvalidToken", "DisconnectClientError", "RateLimit"}

\* A click on connectBtn
Connect(valid, throws) ==
    /\ valid \in BOOLEAN /\ throws \in BOOLEAN
    /\ Handled([World EXCEPT !.bot = connect(bot, valid, throws)])

\* ws.onopen
SocketOpens(fails) ==
    /\ ~IsNone(bot.ws) /\ bot.ws[1].handlers /\ bot.ws[1].readyState = "CONNECTING"
    /\ Handled([World EXCEPT !.bot = onConnectionOpen(Moved("OPEN", FALSE), fails)])

\* ws.onerror: the connection has failed, its close event follows
SocketErrors ==
    /\ ~IsNone(bot.ws) /\ bot.ws[1].handlers
    /\ bot.ws[1].readyState \in {"CONNECTING", "OPEN"}
    /\ Handled([World EXCEPT !.bot = handleConnectionError(Moved("CLOSED", FALSE))])

\* ws.onclose; after an error the close is unclean with code 1006
SocketCloses(wasClean, code) ==
    /\ ~IsNone(bot.ws) /\ bot.ws[1].handlers /\ ~bot.ws[1].closeFired
    /\ bot.ws[1].readyState = "CLOSED" => (~wasClean /\ code = 1006)
    /\ Handled(handleConnectionClose([World EXCEPT !.bot = Moved("CLOSED", TRUE)],
                                     wasClean, code))

\* handleMessage on an authorize response
AuthorizeResponse(fails) ==
    /\ wsOpen(bot) /\ bot.ws[1].handlers
    /\ Handled([World EXCEPT !.bot = handleAuthorize(bot, fails)])

\* handleMessage on a message with an error
ApiError(code) ==
    /\ wsOpen(bot) /\ bot.ws[1].handlers
    /\ Handled(handleError(World, code))

\* The callback of the ping interval; the pong of the previous ping has
\* arrived or timed out by then
PingTick(fails) ==
    /\ bot.pingInterval /\ wsOpen(bot) /\ ~bot.pongTimeout
    /\ Handled([World EXCEPT !.bot = sendPing(bot, fails)])

\* handleMessage on the answer to a ping
PongMessage ==
    /\ wsOpen(bot) /\ bot.ws[1].handlers /\ bot.pongTimeout
    /\ Handled([World EXCEPT !.bot = handlePong(bot)])

PongTimeoutFires ==
    /\ bot.pongTimeout
    /\ Handled([World EXCEPT !.bot = pongTimedOut(bot)])

\* The callback of a timer set by attemptReconnection
ReconnectTimerFires(throws) ==
    \E id \in bot.timers :
        Handled([World EXCEPT !.bot =
            establishConnection([bot EXCEPT !.timers = @ \ {id}], throws)])

\* The window's online event
NetworkOnline ==
    /\ bot.onlineTimers < MaxOnlineTimers
    /\ ~bot.isConnected /\ bot.shouldReconnect /\ ~bot.emergencyStop
    /\ Handled([World EXCEPT !.bot.onlineTimers = @ + 1])

\* The callback of the online listener's timer
OnlineTimerFires ==
    /\ bot.onlineTimers > 0
    /\ Handled([World EXCEPT !.bot =
            attemptReconnection([bot EXCEPT !.onlineTimers = @ - 1])])

\* The document's visibilitychange event on a tab that becomes visible
VisibilityChange ==
    /\ bot.isConnected /\ ~IsNone(bot.ws) /\ ~wsOpen(bot)
    /\ Handled([World EXCEPT !.bot = forceReconnect(bot)])

\* A click on emergencyStop
EmergencyStop ==
    /\ bot.nStops < MaxStops
    /\ Handled(handleEmergencyStop(World))

ConnConfig ==
    [enabled |-> {"ruleBased"}, weightMethod |-> "equal", ensembleMethod |-> "voting",
     minConfidence |-> 50, autoTrade |-> TRUE, simulationMode |-> FALSE]

\* The page after the constructor has run
InitConn ==
    /\ tickBuffer = <<>>
    /\ localStorage = InitialStorage
    /\ config = ConnConfig
    /\ last = Idle
    /\ nFeedback = 0
    /\ nFaults = 0
    /\ bot = NewBot

NextConn ==
    \/ \E valid \in BOOLEAN, throws \in BOOLEAN : Connect(valid, throws)
    \/ \E fails \in BOOLEAN : SocketOpens(fails)
    \/ SocketErrors
    \/ \E wasClean \in BOOLEAN, code \in CloseCodes : SocketCloses(wasClean, code)
    \/ \E fails \in BOOLEAN : AuthorizeResponse(fails)
    \/ \E code \in ErrorCodes : ApiError(code)
    \/ \E fails \in BOOLEAN : PingTick(fails)
    \/ PongMessage
    \/ PongTimeoutFires
    \/ \E throws \in BOOLEAN : ReconnectTimerFires(throws)
    \/ NetworkOnline
    \/ OnlineTimerFires
    \/ VisibilityChange
    \/ EmergencyStop

SpecConn == InitConn /\ [][NextConn]_vars

\* C29: reconnectAttempts never exceeds maxReconnectAttempts (10) under any
\* sequence of socket error, socket close, failed send and network-online events,
\* and once maxReconnectAttempts attempts have failed without a successful open no
\* further connection attempt is made until the user calls connect().
C29_AttemptsBounded == bot.reconnectAttempts <= maxReconnectAttempts

\* The sockets whose handlers can still call into the bot
LiveSockets ==
    (IF ~IsNone(bot.ws) /\ bot.ws[1].handlers THEN 1 ELSE 0)
        + Cardinality({k \in 1 .. Len(bot.detached) : bot.detached[k].handlers})

\* The sockets that are still connecting
ConnectingSockets ==
    (IF ~IsNone(bot.ws) /\ bot.ws[1].readyState = "CONNECTING" THEN 1 ELSE 0)
        + Cardinality({k \in 1 .. Len(bot.detached) :
                            bot.detached[k].readyState = "CONNECTING"})

OneAttemptAtATime ==
    /\ LiveSockets <= 1
    /\ ConnectingSockets <= 1
    /\ Cardinality(bot.timers) <= 1
    /\ bot.timers \subseteq {bot.reconnectTimer}

\* connect() with valid credentials called after disconnect(): the step that
\* sets shouldReconnect again
ConnectAfterDisconnect == ~bot.shouldReconnect /\ bot'.shouldReconnect

\* this.ws is a socket that is connecting, with the handlers attached
NewSocket(b) ==
    ~IsNone(b.ws) /\ b.ws[1].handlers /\ b.ws[1].readyState = "CONNECTING"

\* C38: after disconnect() (or an emergency stop or forced cleanup) issued in any
\* connection state, including while a connection attempt is still in progress,
\* a later connect() with valid credentials always creates a new WebSocket,
\* unless the WebSocket constructor itself throws: isReconnecting never remains
\* true with no socket whose open/close handler can clear it.
C38_ConnectCreatesSocket ==
    [][ConnectAfterDisconnect =>
          (NewSocket(bot') \/ (~bot.isReconnecting /\ IsNone(bot'.ws)))]_vars

\* While isReconnecting is true no step puts a new socket into this.ws
NoSocketWhileReconnecting ==
    (bot.isReconnecting /\ ~IsNone(bot'.ws) /\ bot'.ws[1].readyState = "CONNECTING")
        => bot'.ws = bot.ws

\* C30: at any time at most one connection attempt is in flight:
\* establishConnection does nothing while isReconnecting is true, at most one
\* WebSocket has live handlers attached to the bot, and at most one reconnect timer
\* scheduled by attemptReconnection is pending, since scheduling a new one cancels
\* the previous one.
C30_OneAttemptInFlight == []OneAttemptAtATime /\ [][NoSocketWhileReconnecting]_vars

\* A second reconnection has been scheduled while the timer of the first was pending
C30_Witness ==
    /\ bot.reconnectAttempts = 2
    /\ bot.reconnectTimer = 2
    /\ bot.timers = {2}

----------------------------------------------------------------------------
(* The emergency stop among the ticks, the trades and the connection events *)

StopConfigs ==
    { [enabled |-> {"ruleBased"}, weightMethod |-> "performance",
       ensembleMethod |-> "weighted", minConfidence |-> 60,
       autoTrade |-> TRUE, simulationMode |-> sim] : sim \in BOOLEAN }

\* The last digit of the ticks that follow
StopDigits == {0}

\* The socket is open, the tick stream has delivered 19 ticks
InitStop ==
    /\ tickBuffer = <<1, 2, 3, 4, 5, 6, 7, 8, 9, 0, 1, 2, 3, 4, 5, 6, 7, 8, 9>>
    /\ localStorage = setItem(InitialStorage, "ticks", tickBuffer, FALSE)
    /\ config \in StopConfigs
    /\ last = Idle
    /\ nFeedback = 0
    /\ nFaults = 0
    /\ bot = ConnectedBot

\* A click on manualTrade, which a disabled button does not deliver
ManualTrade(cooledDown) ==
    /\ last = Idle
    /\ ~bot.manualTradeDisabled
    /\ Len(bot.sent) + Len(bot.contracts) + bot.nSim < MaxTrades
    /\ \E after \in {IF bot.predictionValue = "-"
                      THEN [bot |-> bot, config |-> config, localStorage |-> localStorage]
                      ELSE executeTrade(bot, config, localStorage,
                                        [finalPrediction |-> bot.predictionValue,
                                         shouldTrade |-> TRUE],
                                        tickBuffer, cooledDown)} :
            /\ bot' = after.bot
            /\ config' = after.config
            /\ localStorage' = after.localStorage
    /\ last' = [op |-> "executeManualTrade"]
    /\ UNCHANGED <<tickBuffer, nFeedback, nFaults>>

\* The user's change of the autoTrade checkbox
AutoTradeChange(checked) ==
    /\ last = Idle
    /\ config.autoTrade # checked
    /\ config' = [config EXCEPT !.autoTrade = checked]
    /\ last' = [op |-> "autoTradeChange"]
    /\ UNCHANGED <<tickBuffer, localStorage, nFeedback, nFaults, bot>>

\* The connection events are followed while few reconnections have been counted
FewRetries == bot.reconnectAttempts < MaxRetries

NextStop ==
    \/ \E digit \in StopDigits, plan \in DrawPlans, cooledDown \in BOOLEAN :
            HandleTick(digit, plan, cooledDown)
    \/ \E cooledDown \in BOOLEAN : ManualTrade(cooledDown)
    \/ \E checked \in BOOLEAN : AutoTradeChange(checked)
    \/ HandleBuyResponse
    \/ FewRetries /\ \E valid \in BOOLEAN, throws \in BOOLEAN : Connect(valid, throws)
    \/ FewRetries /\ \E fails \in BOOLEAN : SocketOpens(fails)
    \/ FewRetries /\ SocketErrors
    \/ FewRetries /\ \E wasClean \in BOOLEAN, code \in CloseCodes :
                        SocketCloses(wasClean, code)
    \/ FewRetries /\ \E fails \in BOOLEAN : AuthorizeResponse(fails)
    \/ FewRetries /\ \E code \in ErrorCodes : ApiError(code)
    \/ FewRetries /\ \E throws \in BOOLEAN : ReconnectTimerFires(throws)
    \/ FewRetries /\ NetworkOnline
    \/ FewRetries /\ OnlineTimerFires
    \/ FewRetries /\ VisibilityChange
    \/ EmergencyStop
    \/ Return

SpecStop == InitStop /\ [][NextStop]_vars

Stopped == bot.nStops > 0

\* What a step after the stop must leave alone
StopHolds ==
    /\ bot'.emergencyStop
    /\ Len(bot'.sent) <= Len(bot.sent)
    /\ bot'.nSim = bot.nSim
    /\ getTrades(localStorage') = getTrades(localStorage)
    /\ last'.op = "handleTick" => IsNone(last'.prediction)
    /\ bot'.timers \subseteq bot.timers
    /\ bot'.reconnectAttempts <= bot.reconnectAttempts
    /\ (~config.autoTrade /\ config'.autoTrade) => last'.op = "autoTradeChange"

C28_ReconnectResumesTrading ==
    (/\ Stopped
     /\ bot.isConnected /\ wsOpen(bot)
     /\ last.op = "handleTick"
     /\ Len(tickBuffer) >= 20) => ~IsNone(last.prediction)

----------------------------------------------------------------------------
(* The risk rules of executeTrade: the cooldown, the run of losses and the   *)
(* day's loss                                                                *)

\* The losses of the day before the history was cleared: 141 stakes of 0.35
EarlierLosses == 141 * baseStake

\* The bot is connected with 20 ticks in the buffer; clearHistory has emptied the
\* store, which leaves dailyLoss as it was
InitRisk ==
    /\ tickBuffer = <<1, 2, 3, 4, 5, 6, 7, 8, 9, 0, 1, 2, 3, 4, 5, 6, 7, 8, 9, 0>>
    /\ localStorage = InitialStorage
    /\ config \in StopConfigs
    /\ last = Idle
    /\ nFeedback = 0
    /\ nFaults = 0
    /\ \E lost \in {0, EarlierLosses} : bot = [ConnectedBot EXCEPT !.dailyLoss = lost]

\* Buy requests sent and simulated trades recorded so far
Orders(b) == Len(b.sent) + Len(b.contracts) + b.nSim

\* A simulated trade wins or loses by its prediction, a real one by the outcome
\* of its contract
Wagers == IF config.simulationMode THEN Actions ELSE {"EVEN"}

\* One call of DerivBot.executeTrade, from handleTick or executeManualTrade;
\* cooledDown says whether cooldownPeriod has passed since the last trade that
\* was executed
ExecuteTrade(cooledDown) ==
    /\ last = Idle
    /\ Orders(bot) < MaxOrders
    /\ \E finalPrediction \in Wagers :
       \E after \in {executeTrade(bot, config, localStorage,
                                   [finalPrediction |-> finalPrediction,
                                    shouldTrade |-> TRUE],
                                   tickBuffer, cooledDown)} :
            /\ bot' = after.bot
            /\ config' = after.config
            /\ localStorage' = after.localStorage
            /\ last' = [op |-> "executeTrade", cooledDown |-> cooledDown,
                        traded |-> Orders(bot) > 0,
                        executed |-> Orders(after.bot) > Orders(bot)]
    /\ UNCHANGED <<tickBuffer, nFeedback, nFaults>>

\* The contract whose settlement is due: the oldest one not yet sold
Pending ==
    IF \E id \in 1 .. Len(bot.contracts) : bot.contracts[id].sold = 0
    THEN CHOOSE id \in 1 .. Len(bot.contracts) :
            /\ bot.contracts[id].sold = 0
            /\ \A other \in 1 .. id - 1 : bot.contracts[other].sold # 0
    ELSE 0

\* handleMessage on an error message with code DisconnectClientError
Disconnect ==
    /\ bot.isConnected /\ wsOpen(bot) /\ bot.ws[1].handlers
    /\ Handled(handleError(World, "DisconnectClientError"))

NextRisk ==
    \/ \E cooledDown \in BOOLEAN : ExecuteTrade(cooledDown)
    \/ HandleBuyResponse
    \/ \E won \in BOOLEAN : HandleContractUpdate(Pending, TRUE, won)
    \/ \E checked \in BOOLEAN : AutoTradeChange(checked)
    \/ Disconnect
    \/ Return

SpecRisk == InitRisk /\ [][NextRisk]_vars

IsExecuteTrade == last.op = "executeTrade"

\* C31: two trades are never executed less than cooldownPeriod seconds apart:
\* after executeTrade has sent a buy or recorded a simulated trade, every
\* executeTrade call within the next cooldownPeriod seconds executes nothing, in
\* live mode and in simulation mode alike.
C31_CooldownBetweenTrades ==
    (IsExecuteTrade /\ last.traded /\ ~last.cooledDown) => ~last.executed

\* In live mode the cooldown holds
C31_LiveCooldown ==
    (IsExecuteTrade /\ last.traded /\ ~last.cooledDown /\ ~config.simulationMode)
        => ~last.executed

\* A call within the cooldown of a buy request has executed nothing
C31_LiveWitness ==
    /\ IsExecuteTrade /\ last.traded /\ ~last.cooledDown /\ ~last.executed
    /\ ~config.simulationMode
    /\ bot.isConnected /\ bot.consecutiveLosses = 0 /\ bot.dailyLoss = 0

\* The trade a step has recorded, if any
Recorded == IF Len(bot'.trades) > Len(bot.trades)
            THEN Some(bot'.trades[Len(bot'.trades)]) ELSE None

\* consecutiveLosses counts the losing trades since the last win, dailyLoss adds
\* up the stakes of the losing real trades, and nothing else changes them
CountersFollowTrades ==
    \E trade \in {Recorded} :
        IF IsNone(trade)
        THEN /\ bot'.consecutiveLosses = bot.consecutiveLosses
             /\ bot'.dailyLoss = bot.dailyLoss
        ELSE /\ bot'.consecutiveLosses =
                    IF trade[1].result = "loss" THEN bot.consecutiveLosses + 1 ELSE 0
             /\ bot'.dailyLoss =
                    IF trade[1].result = "loss" /\ ~trade[1].simulated
                    THEN bot.dailyLoss + calculateStake ELSE bot.dailyLoss

LimitReached ==
    \/ bot.consecutiveLosses >= maxConsecutiveLosses
    \/ bot.dailyLoss >= maxDailyLoss

\* The call of executeTrade this step makes executes nothing and leaves
\* autoTrade off
Paused == last'.op = "executeTrade" => (~last'.executed /\ ~config'.autoTrade)

LossRun(n) ==
    /\ Len(bot.trades) >= n
    /\ \A i \in Len(bot.trades) - n + 1 .. Len(bot.trades) : bot.trades[i].result = "loss"

C32_DailyWitness ==
    /\ IsExecuteTrade /\ ~last.executed
    /\ bot.isConnected /\ wsOpen(bot)
    /\ LossRun(1) /\ ~bot.trades[Len(bot.trades)].simulated
    /\ bot.consecutiveLosses < maxConsecutiveLosses
    /\ bot.dailyLoss >= maxDailyLoss
    /\ ~config.autoTrade

----------------------------------------------------------------------------
(* The martingale variant of DerivBot: the stake doubles after a loss and    *)
(* goes back to the initial stake after a win or the fourth loss in a row    *)

martingaleMultiplier == 2
martingaleResetThreshold == 4

\* The variant's bot, connected, with this base stake in cents. lostTrades and
\* lostCalls count the losing contracts and the losing settlement calls handled
\* with martingale enabled since the last resetMartingale, streak counts the
\* losing settlement calls since the last winning one, and pauses counts the
\* times checkRiskManagement has paused trading for consecutive losses
MartingaleBot(stake) ==
    [isConnected |-> TRUE, emergencyStop |-> FALSE,
     initialStake |-> stake, currentStake |-> stake,
     consecutiveLosses |-> 0, consecutiveWins |-> 0, martingaleEnabled |-> TRUE,
     dailyLoss |-> 0, lastTradeTime |-> 0,
     sent |-> <<>>, contracts |-> <<>>, nSim |-> 0,
     lostTrades |-> 0, lostCalls |-> 0, streak |-> 0, pauses |-> 0]

\* DerivBot.resetMartingale
resetMartingale(b) ==
    [b EXCEPT !.currentStake = b.initialStake, !.consecutiveLosses = 0,
              !.consecutiveWins = 0, !.lostTrades = 0, !.lostCalls = 0]

\* a loss handler that never resets at the threshold
applyMartingaleNoReset(b) ==
    IF ~b.martingaleEnabled THEN b
    ELSE [b EXCEPT !.consecutiveLosses = @ + 1, !.consecutiveWins = 0,
                   !.currentStake = Min2(@ * martingaleMultiplier, maxStake)]

\* DerivBot.applyMartingaleAfterLoss
applyMartingaleAfterLoss(b) ==
    IF ~b.martingaleEnabled THEN b
    ELSE LET counted == [b EXCEPT !.consecutiveLosses = @ + 1, !.consecutiveWins = 0]
         IN  IF counted.consecutiveLosses >= martingaleResetThreshold
             THEN resetMartingale(counted)
             ELSE [counted EXCEPT !.currentStake =
                        IF @ * martingaleMultiplier > maxStake
                        THEN maxStake ELSE @ * martingaleMultiplier]

\* DerivBot.handleMartingaleAfterWin
handleMartingaleAfterWin(b) == resetMartingale([b EXCEPT !.consecutiveWins = @ + 1])

\* The variant's checkRiskManagement: whether the trade may go on, and the bot
\* and autoTrade as the check leaves them
checkRiskManagementWithMartingale(b, autoTrade) ==
    IF b.emergencyStop THEN [ok |-> FALSE, bot |-> b, autoTrade |-> autoTrade]
    ELSE IF b.currentStake > maxStake
    THEN [ok |-> FALSE, bot |-> resetMartingale(b), autoTrade |-> autoTrade]
    ELSE IF b.consecutiveLosses >= maxConsecutiveLosses
    THEN [ok |-> FALSE, bot |-> resetMartingale([b EXCEPT !.pauses = @ + 1]),
          autoTrade |-> FALSE]
    ELSE IF b.dailyLoss >= maxDailyLoss
    THEN [ok |-> FALSE, bot |-> resetMartingale(b), autoTrade |-> FALSE]
    ELSE [ok |-> TRUE, bot |-> b, autoTrade |-> autoTrade]

\* The settled trade as the handlers count it
Counted(b, won, first) ==
    IF won THEN [b EXCEPT !.streak = 0]
    ELSE [b EXCEPT !.streak = @ + 1,
                   !.lostCalls = IF b.martingaleEnabled THEN @ + 1 ELSE @,
                   !.lostTrades = IF b.martingaleEnabled /\ first THEN @ + 1 ELSE @]

\* The variant's simulateTrade
simulateTradeWithMartingale(b, ls, prediction, stake, ticks) ==
    LET won == isEven(ticks[Len(ticks)]) = (prediction.finalPrediction = "EVEN")
        trade == [contractId |-> <<"SIM", b.nSim + 1>>,
                  prediction |-> prediction.finalPrediction,
                  result |-> IF won THEN "win" ELSE "loss", simulated |-> TRUE]
        counted == Counted([b EXCEPT !.nSim = @ + 1], won, TRUE)
    IN  [bot |-> IF won THEN handleMartingaleAfterWin(counted)
                 ELSE applyMartingaleAfterLoss(counted),
         localStorage |-> saveTrade(ls, trade)]

\* The variant's executeTrade with adaptiveStaking off
executeTradeWithMartingale(b, cfg, ls, prediction, ticks, cooledDown) ==
    LET same == [bot |-> b, config |-> cfg, localStorage |-> ls]
        risk == checkRiskManagementWithMartingale(b, cfg.autoTrade)
        checked == [same EXCEPT !.bot = risk.bot, !.config.autoTrade = risk.autoTrade]
        stake == b.currentStake
    IN  IF ~b.isConnected THEN same
        ELSE IF ~risk.ok THEN checked
        ELSE IF b.lastTradeTime # 0 /\ ~cooledDown THEN same
        ELSE IF ~validateStake(stake) THEN same
        ELSE IF cfg.simulationMode
        THEN LET sim == simulateTradeWithMartingale(b, ls, prediction, stake, ticks)
             IN  [bot |-> sim.bot, config |-> cfg, localStorage |-> sim.localStorage]
        ELSE [same EXCEPT !.bot.sent = Append(@, stake), !.bot.lastTradeTime = 1]

\* The variant's handleContractSettlement on an is_sold update of this contract
handleContractSettlementWithMartingale(b, ls, id, won) ==
    LET contract == b.contracts[id]
        trade == [contractId |-> <<"CONTRACT", id>>, prediction |-> "EVEN",
                  result |-> IF won THEN "win" ELSE "loss", simulated |-> FALSE]
        marked == [b EXCEPT !.contracts[id].sold = @ + 1]
        counted == Counted(marked, won, contract.sold = 0)
    IN  [bot |-> IF won THEN handleMartingaleAfterWin(counted)
                 ELSE applyMartingaleAfterLoss(
                        [counted EXCEPT !.dailyLoss = @ + contract.buy_price]),
         localStorage |-> saveTrade(ls, trade)]

\* Base stakes the stake field accepts
BaseStakes == {35, 3000}

InitMartingale ==
    /\ tickBuffer = <<1, 2, 3, 4, 5, 6, 7, 8, 9, 0, 1, 2, 3, 4, 5, 6, 7, 8, 9, 0>>
    /\ localStorage = InitialStorage
    /\ config \in StopConfigs
    /\ last = Idle
    /\ nFeedback = 0
    /\ nFaults = 0
    /\ \E stake \in BaseStakes : bot = MartingaleBot(stake)

\* The contracts last one tick: each has been settled before the cooldown of
\* its buy request is over
AllSettled == bot.sent = <<>> /\ \A id \in 1 .. Len(bot.contracts) : bot.contracts[id].sold > 0

\* One call of the variant's executeTrade
MartingaleTrade(cooledDown) ==
    /\ last = Idle
    /\ Orders(bot) < (IF config.simulationMode THEN MaxOrders ELSE MaxTrades)
    /\ cooledDown => AllSettled
    /\ \E finalPrediction \in Wagers :
       \E after \in {executeTradeWithMartingale(bot, config, localStorage,
                            [finalPrediction |-> finalPrediction, shouldTrade |-> TRUE],
                            tickBuffer, cooledDown)} :
            /\ bot' = after.bot
            /\ config' = after.config
            /\ localStorage' = after.localStorage
            /\ last' = [op |-> "executeTrade",
                        executed |-> Orders(after.bot) > Orders(bot),
                        settled |-> after.bot.nSim > bot.nSim,
                        won |-> after.bot.nSim > bot.nSim /\ after.bot.streak = 0,
                        first |-> TRUE,
                        lostBefore |-> bot.lostTrades,
                        callsBefore |-> bot.lostCalls]
    /\ UNCHANGED <<tickBuffer, nFeedback, nFaults>>

\* The server accepts the oldest buy request
MartingaleBuyResponse ==
    /\ last = Idle
    /\ bot.sent # <<>>
    /\ bot' = [bot EXCEPT !.sent = Tail(@),
                          !.contracts = Append(@, [buy_price |-> Head(bot.sent),
                                                   sold |-> 0, won |-> None])]
    /\ last' = [op |-> "handleBuyResponse"]
    /\ UNCHANGED <<tickBuffer, localStorage, config, nFeedback, nFaults>>

\* handleContractUpdate on an is_sold update of the latest contract, which
\* keeps its outcome in later updates
MartingaleSettlement(won) ==
    /\ last = Idle
    /\ bot.contracts # <<>>
    /\ bot.contracts[Len(bot.contracts)].sold < MaxSoldUpdates
    /\ \E id \in {Len(bot.contracts)} :
       /\ IsNone(bot.contracts[id].won) \/ bot.contracts[id].won = Some(won)
       /\ \E after \in {handleContractSettlementWithMartingale(
                            [bot EXCEPT !.contracts[id].won = Some(won)],
                            localStorage, id, won)} :
            /\ bot' = after.bot
            /\ localStorage' = after.localStorage
       /\ last' = [op |-> "handleContractSettlement", executed |-> FALSE,
                   settled |-> TRUE, won |-> won,
                   first |-> bot.contracts[id].sold = 0,
                   lostBefore |-> bot.lostTrades,
                   callsBefore |-> bot.lostCalls]
    /\ UNCHANGED <<tickBuffer, config, nFeedback, nFaults>>

\* A change of the martingaleEnabled checkbox
MartingaleToggle(checked) ==
    /\ last = Idle
    /\ checked # bot.martingaleEnabled
    /\ bot' = IF checked THEN [bot EXCEPT !.martingaleEnabled = TRUE]
              ELSE resetMartingale([bot EXCEPT !.martingaleEnabled = FALSE])
    /\ UNCHANGED <<tickBuffer, localStorage, config, last, nFeedback, nFaults>>

NextMartingale ==
    \/ \E cooledDown \in BOOLEAN : MartingaleTrade(cooledDown)
    \/ MartingaleBuyResponse
    \/ \E won \in BOOLEAN : MartingaleSettlement(won)
    \/ \E checked \in BOOLEAN : MartingaleToggle(checked)
    \/ Return

SpecMartingale == InitMartingale /\ [][NextMartingale]_vars

\* The step has settled a trade
IsSettlement == last.op \in {"executeTrade", "handleContractSettlement"} /\ last.settled

AtInitialStake == bot.currentStake = bot.initialStake /\ bot.consecutiveLosses = 0

\* C33: in the martingale variant, with martingale enabled, after k consecutive
\* losing trades since the last reset (1 <= k < martingaleResetThreshold = 4)
\* currentStake equals min(initialStake * 2^k, maxStake); after the 4th
\* consecutive loss or after any win currentStake equals initialStake and
\* consecutiveLosses is 0; currentStake never exceeds maxStake.
C33_MartingaleStake ==
    /\ bot.currentStake <= maxStake
    /\ bot.martingaleEnabled =>
        /\ bot.lostTrades \in 1 .. martingaleResetThreshold - 1 =>
                bot.currentStake = Min2(bot.initialStake * 2 ^ bot.lostTrades, maxStake)
        /\ (IsSettlement /\ last.won) => AtInitialStake
        /\ (IsSettlement /\ ~last.won /\ last.first
                /\ last.lostBefore = martingaleResetThreshold - 1) => AtInitialStake

\* The same holds of the settlement calls in place of the trades: each call of
\* handleContractSettlement or simulateTrade with a loss counts as one loss
C33_StakePerSettlementCall ==
    /\ bot.currentStake <= maxStake
    /\ bot.martingaleEnabled =>
        /\ bot.lostCalls = bot.consecutiveLosses
        /\ bot.lostCalls \in 1 .. martingaleResetThreshold - 1 =>
                bot.currentStake = Min2(bot.initialStake * 2 ^ bot.lostCalls, maxStake)
        /\ (IsSettlement /\ last.won) => AtInitialStake
        /\ (IsSettlement /\ ~last.won
                /\ last.callsBefore = martingaleResetThreshold - 1) => AtInitialStake

\* The third loss in a row has brought the stake of 30.00 to the cap
C33_CappedWitness ==
    /\ IsSettlement /\ ~last.won
    /\ bot.martingaleEnabled
    /\ bot.lostTrades = 3 /\ bot.lostCalls = 3
    /\ bot.initialStake = 3000 /\ bot.currentStake = maxStake

\* C39: in the martingale variant, after every settlement consecutiveLosses is
\* at most martingaleResetThreshold - 1 when martingale is enabled and stays 0
\* when it is disabled, so with the default maxConsecutiveLosses of 5 the
\* consecutive-loss pause in checkRiskManagement is never triggered by any
\* sequence of losing trades.
C39_LossesBelowThreshold ==
    /\ bot.consecutiveLosses <= martingaleResetThreshold - 1
    /\ ~bot.martingaleEnabled => bot.consecutiveLosses = 0
    /\ martingaleResetThreshold - 1 < maxConsecutiveLosses
    /\ bot.pauses = 0

\* More than maxConsecutiveLosses trades in a row have lost, the last of them
\* executed just now
C39_Witness ==
    /\ last.op = "executeTrade" /\ last.executed
    /\ bot.martingaleEnabled
    /\ bot.streak > maxConsecutiveLosses
    /\ config.autoTrade

\* The same run of losses with martingale disabled
C39_DisabledWitness ==
    /\ last.op = "executeTrade" /\ last.executed
    /\ ~bot.martingaleEnabled
    /\ bot.streak > maxConsecutiveLosses
    /\ config.autoTrade

----------------------------------------------------------------------------
(* The bot with the learner enabled *)

LearnConfigs ==
    { [enabled |-> {"ruleBased", "reinforcementLearning"}, weightMethod |-> "performance",
       ensembleMethod |-> "weighted", minConfidence |-> 60, autoTrade |-> TRUE,
       simulationMode |-> sim] : sim \in BOOLEAN }

LearnDigits == {0, 3}

\* The connected bot on a buffer of 22 ticks
InitLearn ==
    /\ tickBuffer = <<2, 4, 1, 3, 3, 8, 6, 5, 0, 8, 2, 4, 6, 0, 8, 2, 4, 6, 0, 8, 2, 4>>
    /\ localStorage = setItem(InitialStorage, "ticks", tickBuffer, FALSE)
    /\ config \in LearnConfigs
    /\ last = Idle
    /\ nFeedback = 0
    /\ nFaults = 0
    /\ bot = ConnectedBot

NextLearn ==
    \/ \E digit \in LearnDigits, plan \in DrawPlans, cooledDown \in BOOLEAN :
            HandleTick(digit, plan, cooledDown)
    \/ HandleBuyResponse
    \/ \E id \in 1 .. MaxTicks, is_sold \in BOOLEAN, won \in BOOLEAN :
            HandleContractUpdate(id, is_sold, won)
    \/ Return

SpecLearn == InitLearn /\ [][NextLearn]_vars

----------------------------------------------------------------------------
(* The stored accuracy records while the bot runs *)

\* The lists predict can hand to calculateWeights: one output per enabled model
RECURSIVE OutputsOf(_, _)
OutputsOf(enabled, k) ==
    IF k > Len(ModelOrder) THEN <<>>
    ELSE (IF ModelOrder[k] \in enabled
          THEN <<[model |-> ModelOrder[k], prediction |-> "EVEN", confidence |-> Half]>>
          ELSE <<>>) \o OutputsOf(enabled, k + 1)

OutputLists == { OutputsOf(enabled, 1) : enabled \in (SUBSET Models) \ {{}} }

\* C37: no bot operation (tick handling, prediction, trade execution, settlement,
\* simulation) updates the stored per-model accuracy records, so starting from
\* default storage every model's accuracy stays 0 and performance weighting
\* returns exactly the equal weights 1/n in every reachable state.
C37_AccuracyStaysZero ==
    \E models \in {getModels(localStorage, FALSE)} :
        /\ DOMAIN models = Models
        /\ \A m \in Models :
                /\ models[m].accuracy = Zero
                /\ models[m].predictions = 0
                /\ models[m].correct = 0
        /\ \A predictions \in OutputLists :
                calculateWeights(predictions, "performance", models)
                    = [i \in 1 .. Len(predictions) |-> Rat(1, Len(predictions))]

\* A contract has been settled and the learner has written its table into the
\* models object of the store
C37_Witness ==
    /\ last.op = "handleContractUpdate" /\ last.is_sold
    /\ bot.qCalls # <<>>
    /\ getQTable(localStorage, FALSE) # EmptyTable
    /\ config.weightMethod = "performance"

----------------------------------------------------------------------------
(* The two states of the learner's update at a settlement *)

\* The step just taken is a settlement that called updateQLearning
IsLearningSettlement ==
    last.op = "handleContractUpdate" /\ last.is_sold /\ last.learns

\* C36: at every contract settlement the priorState and nextState that
\* handleContractSettlement passes to updateQLearning are the same state key, that
\* of the last 5 ticks of the tick buffer as it stands at settlement time, so the
\* update bootstraps from the row it is updating.
C36_SameStateKey ==
    IsLearningSettlement =>
        /\ last.state = last.newState
        /\ last.state = stateKey(getState(SliceLast(tickBuffer, 5)))
        /\ Len(last.state[3]) = 5

\* A settlement with the learner enabled on a buffer of more than 5 ticks whose
\* earlier ticks differ in parity count from the last 5
C36_Witness ==
    /\ IsLearningSettlement
    /\ Len(tickBuffer) > 5
    /\ CountEven(tickBuffer) # CountEven(SliceLast(tickBuffer, 5))

----------------------------------------------------------------------------
(* fuseDecisions under the thresholds the confidence slider sets *)

\* parseInt on a string of decimal digits, given as the sequence of its digits
RECURSIVE parseInt(_)
parseInt(digits) ==
    IF Len(digits) = 0 THEN 0
    ELSE 10 * parseInt(SubSeq(digits, 1, Len(digits) - 1)) + digits[Len(digits)]

\* e.target.value at the ends and inside of the slider's range: "0", "50", "100"
SliderValues == { <<0>>, <<5, 0>>, <<1, 0, 0>> }

InitSlider == InitFusion

\* The input listener of the minConfidence slider
ConfidenceSlider(value) ==
    /\ last.op = "input"
    /\ parseInt(value) # config.minConfidence
    /\ config' = [config EXCEPT !.minConfidence = parseInt(value)]
    /\ UNCHANGED <<tickBuffer, localStorage, last, nFeedback, nFaults, bot>>

NextSlider ==
    \/ \E value \in SliderValues : ConfidenceSlider(value)
    \/ \E plan \in DrawPlans : Fuse(plan)

SpecSlider == InitSlider /\ [][NextSlider]_vars

\* Some model of the breakdown predicted the final prediction with positive
\* confidence
Supported(out) ==
    \E i \in 1 .. Len(out.modelBreakdown) :
        /\ out.modelBreakdown[i].prediction = out.finalPrediction
        /\ RLess(Zero, out.modelBreakdown[i].confidence)

\* C34: whenever a Decision has shouldTrade true, at least one model in
\* modelBreakdown predicted the Decision's finalPrediction with positive
\* confidence, for every minConfidence value the confidence slider can set
\* (including 0).
C34_TradeHasSupport == (IsFuse /\ last.out.shouldTrade) => Supported(last.out)

\* The same with the threshold above 0
C34_SupportAboveZero ==
    (IsFuse /\ last.out.shouldTrade /\ config.minConfidence > 0) => Supported(last.out)

\* A Decision to trade at a threshold above 0 on a list that holds a none
\* prediction
C34_AboveZeroWitness ==
    /\ IsFuse /\ last.out.shouldTrade /\ config.minConfidence = 50
    /\ \E i \in 1 .. Len(last.predictions) : last.predictions[i].prediction = "null"

----------------------------------------------------------------------------
(* fuseDecisions on a list with and without a none prediction *)

\* What a model returns when it has no opinion
NonePrediction(m) == [model |-> m, prediction |-> "null", confidence |-> Zero]

\* The list with the none prediction of model m added at the model's place in
\* the order of getEnabledModels
RECURSIVE WithNone(_, _, _)
WithNone(predictions, m, k) ==
    IF k > Len(ModelOrder) THEN <<>>
    ELSE (IF ModelOrder[k] = m THEN <<NonePrediction(m)>>
          ELSE SelectSeq(predictions, LAMBDA p : p.model = ModelOrder[k]))
         \o WithNone(predictions, m, k + 1)

\* The configurations in which the Monte Carlo gate stays inactive
NeutralConfigs ==
    { [enabled |-> Models, weightMethod |-> w, ensembleMethod |-> g, minConfidence |-> 60] :
        w \in {"equal", "performance", "confidence"}, g \in {"voting", "stacking"} }

InitNeutral ==
    /\ tickBuffer = <<>>
    /\ localStorage = InitialStorage
    /\ config \in NeutralConfigs
    /\ last = Idle
    /\ nFeedback = 0
    /\ nFaults = 0
    /\ bot = NewBot

\* The models object of a backup: the default records, one of them with the
\* accuracy of some scored predictions
BackupModels ==
    { [getDefaultValue EXCEPT ![m] =
            [@ EXCEPT !.predictions = n, !.correct = c, !.accuracy = Rat(c * 100, n)]] :
        m \in ScoredModels, n \in 1 .. MaxPredictions, c \in {0, 1} }

\* Storage.restoreData(backupData) on a backup that holds a models object
RestoreData(models) ==
    /\ last = Idle
    /\ localStorage' = setItem(localStorage, "models", models, FALSE)
    /\ last' = [op |-> "restoreData"]
    /\ UNCHANGED <<tickBuffer, config, nFeedback, nFaults, bot>>

\* Analysis.fuseDecisions(predictions) on the store as it stands
FuseList(predictions, plan) ==
    /\ last = Idle
    /\ last' = [op |-> "fuseDecisions", predictions |-> predictions, plan |-> plan,
                out |-> fuseDecisions(predictions, config,
                                      getModels(localStorage, FALSE), plan)]
    /\ UNCHANGED <<tickBuffer, localStorage, config, nFeedback, nFaults, bot>>

NextNeutral ==
    \/ \E models \in BackupModels : RestoreData(models)
    \/ \E predictions \in PredictionLists \ {<<>>}, plan \in DrawPlans :
            FuseList(predictions, plan)
    \/ Return

SpecNeutral == InitNeutral /\ [][NextNeutral]_vars

\* evenScore and oddScore stand in the same ratio in both Decisions
SameRatio(a, b) ==
    /\ RMul(a.evenScore, b.oddScore) = RMul(b.evenScore, a.oddScore)
    /\ (a.evenScore = Zero) <=> (b.evenScore = Zero)
    /\ (a.oddScore = Zero) <=> (b.oddScore = Zero)

SameDecision(a, b) ==
    /\ a.finalPrediction = b.finalPrediction
    /\ a.confidence = b.confidence
    /\ ~IsNone(a.scores) /\ ~IsNone(b.scores)
    /\ SameRatio(a.scores[1], b.scores[1])

\* The models that gave no prediction to the list just fused
Absent == Models \ { last.predictions[i].model : i \in 1 .. Len(last.predictions) }

\* The Decision on the list just fused with the none prediction of m added
FusedWithNone(m) ==
    fuseDecisions(WithNone(last.predictions, m, 1), config,
                  getModels(localStorage, FALSE), last.plan)

\* C35: adding or removing a prediction whose value is none (confidence 0)
\* leaves the fused finalPrediction, the evenScore/oddScore ratio and the
\* Decision confidence unchanged under every weighting method (equal,
\* performance, confidence), in exact arithmetic and with the Monte Carlo gate
\* inactive.
C35_NoneIsNeutral ==
    IsFuse => \A m \in Absent : SameDecision(last.out, FusedWithNone(m))

\* The same while no accuracy has been recorded
C35_NeutralOnDefaultStore ==
    (IsFuse /\ localStorage = InitialStorage) =>
        \A m \in Absent : SameDecision(last.out, FusedWithNone(m))

\* Performance weighting on the default store: a decision for EVEN on a list
\* that a none prediction can be added to
C35_DefaultStoreWitness ==
    /\ IsFuse /\ localStorage = InitialStorage
    /\ config.weightMethod = "performance"
    /\ last.out.finalPrediction = "EVEN" /\ last.out.shouldTrade
    /\ Absent # {}

====
